---------------------------- MODULE Spec2Model ----------------------------
(***************************************************************************)
(* A model of the zikalyze asset scripts:                                  *)
(*   fix_logos.py                      convert_and_resize, main            *)
(*   scripts/optimize-logos.py         optimize_png, create_android_icons  *)
(*   scripts/remove-white-background.py                                    *)
(*   scripts/verify_aab.py                                                 *)
(* Each script is a sequential program; each has its own specification     *)
(* over its own variables, the other scripts' variables staying idle.      *)
(***************************************************************************)
EXTENDS Integers, Sequences, FiniteSets, TLC

VARIABLES
    file,       \* image scripts: the image stored at the path being rewritten
    call,       \* image scripts: locals and outcome of the last call
    prev,       \* image scripts: the call before the last one
    bgFiles,    \* remove-white-background: the input and the output file
    bgProc,     \* remove-white-background: the running process
    bgRuns,     \* remove-white-background: the runs that saved, in order
    twice,      \* remove-white-background: the function applied to its output
    naming,     \* remove-white-background: the output path being derived
    verFiles,   \* verify_aab: the files the checks read
    ver,        \* verify_aab: main's position, accumulator and check results
    fs,         \* logo scripts: the file at each path
    unwritable, \* logo scripts: the paths that cannot be opened for writing
    run,        \* logo scripts: the running script, its position and its log
    assets,     \* graphics scripts: the file at each path
    env,        \* graphics scripts: fonts, library build, read-only paths
    job,        \* graphics scripts: the running script, its position and log
    other,      \* two logo scripts at once: the second running script
    io          \* two logo scripts at once: saves in progress, who runs

imgVars == <<file, call, prev>>
bgVars == <<bgFiles, bgProc, bgRuns>>
verVars == <<verFiles, ver>>
loopVars == <<fs, unwritable, run>>
gfxVars == <<assets, env, job>>
concVars == <<other, io>>
fnVars == <<twice, naming>>
vars == <<imgVars, bgVars, verVars, loopVars, gfxVars, concVars, fnVars>>

\* what each script leaves alone: the other scripts' variables
ImageFrame == UNCHANGED <<bgVars, verVars, loopVars, gfxVars, concVars, fnVars>>
BgFrame == UNCHANGED <<imgVars, verVars, loopVars, gfxVars, concVars, fnVars>>
VerFrame == UNCHANGED <<imgVars, bgVars, loopVars, gfxVars, concVars, fnVars>>
LoopFrame == UNCHANGED <<imgVars, bgVars, verVars, gfxVars, concVars, fnVars>>
GfxFrame == UNCHANGED <<imgVars, bgVars, verVars, loopVars, concVars, fnVars>>
ConcFrame == UNCHANGED <<imgVars, bgVars, verVars, gfxVars, fnVars>>
FnFrame ==
    UNCHANGED <<imgVars, bgVars, verVars, loopVars, gfxVars, concVars>>

(***************************************************************************)
(* Bounds of the model.                                                    *)
(***************************************************************************)
MaxDim == 4         \* source images of 1..MaxDim by 1..MaxDim pixels
MaxTarget == 3      \* target sizes 1..MaxTarget (beside the scripts' own)
MaxPixels == 2      \* remove-white-background: images of 1..MaxPixels pixels
MaxBgRuns == 2      \* remove-white-background: invocations on one input
MaxText == 4        \* verify_aab: build.gradle texts of 0..MaxText characters
MaxRules == 5       \* verify_aab: proguard rules texts of 0..MaxRules words
MaxUnwritable == 1  \* logo scripts: at most MaxUnwritable unwritable paths
MaxReadOnly == 1    \* graphics scripts: at most MaxReadOnly read-only paths
MaxSwitches == 1    \* two logo scripts at once: switches between running scripts
MaxPath == 4        \* remove-white-background: paths of 0..MaxPath pieces

(***************************************************************************)
(* Integer helpers.                                                        *)
(***************************************************************************)
RECURSIVE Pow2(_)
Pow2(n) == IF n <= 0 THEN 1 ELSE 2 * Pow2(n - 1)

\* floor(log2(n)) for n >= 1
RECURSIVE FloorLog2(_)
FloorLog2(n) == IF n < 2 THEN 0 ELSE 1 + FloorLog2(n \div 2)

IsPow2(n) == Pow2(FloorLog2(n)) = n

\* 2^s mod m
RECURSIVE PowMod2(_, _)
PowMod2(s, m) == IF s <= 0 THEN 1 % m ELSE (2 * PowMod2(s - 1, m)) % m

(***************************************************************************)
(* Python floats are IEEE-754 binary64.  img_ratio = img.width/img.height  *)
(* is the double nearest to w/h.  It is kept as the exact quotient w/h     *)
(* with the rounding error made by the division: with e = floor(log2(w/h)) *)
(* and ulp = 2^(e-52),  img_ratio = w/h + (err/h) * ulp,  -h/2 < err < h/2.*)
(* err is found from the remainder of w * 2^(52-e) by h (no tie can occur  *)
(* for w, h < 2^31).                                                       *)
(***************************************************************************)
\* e with 2^e <= w/h < 2^(e+1)   (2^(e+1)*h <= w  <=>  2^e*h <= w \div 2)
RECURSIVE RatioExp(_, _)
RatioExp(w, h) ==
    IF w >= h
    THEN (IF w >= 2 * h THEN 1 + RatioExp(w \div 2, h) ELSE 0)
    ELSE RatioExp(2 * w, h) - 1

FloatDiv(w, h) ==
    LET e == RatioExp(w, h)
        rem == (PowMod2(52 - e, h) * (w % h)) % h
    IN  [num |-> w, den |-> h, exp |-> e,
         err |-> IF rem = 0 THEN 0
                 ELSE IF 2 * rem < h THEN 0 - rem ELSE h - rem]

\* img_ratio > 1
RatioGreaterThanOne(r) == r.num > r.den

\* int(t / img_ratio): the double nearest to t / img_ratio, truncated.
\* The quotient is within 2^-52 relative of t*h/w, so truncation can differ
\* from floor(t*h/w) only when t*h/w is an integer N and img_ratio was
\* rounded up; then the quotient lies below N and rounds to the double
\* before N when it is more than half a gap away from N.
IntOfQuotient(t, r) ==
    LET N == (t * r.den) \div r.num
        eN == FloorLog2(N)
        p == IF IsPow2(N) THEN 1 ELSE 0
    IN  IF (t * r.den) % r.num # 0 \/ r.err <= 0 THEN N
        ELSE IF r.err * Pow2(r.exp + 2) * N > Pow2(eN + 1 - p) * r.num
             THEN N - 1 ELSE N

\* int(t * img_ratio), likewise: differs from floor(t*w/h) only when t*w/h
\* is an integer N and img_ratio was rounded down (a tie rounds to N, whose
\* mantissa is even).
IntOfProduct(t, r) ==
    LET N == (t * r.num) \div r.den
        eN == FloorLog2(N)
        p == IF IsPow2(N) THEN 1 ELSE 0
    IN  IF (t * r.num) % r.den # 0 \/ r.err >= 0 THEN N
        ELSE IF 4 * t * (0 - r.err) > Pow2(eN + 1 - p - r.exp) * r.den
             THEN N - 1 ELSE N

(***************************************************************************)
(* Images.  An image has a size, a mode and its pixels.  The pixels are    *)
(* kept as layers, outermost first: a layer is a box <<x, y, w, h>> and    *)
(* the value px of an arbitrary pixel of the box not covered by a later    *)
(* layer.  Every operation below that keeps the size acts on each pixel    *)
(* by itself, so what it does to px it does to every pixel of the layer.   *)
(* A pixel is <<r, g, b>> in mode RGB and <<r, g, b, a>> in mode RGBA.     *)
(* A pixel the LANCZOS filter computed has no value here: it is kept as    *)
(* << the operations that made it >>, so that two such pixels are equal    *)
(* only when the same operations made them.                                *)
(***************************************************************************)
Resampled == << <<"lanczos">> >>

IsValue(px) == Len(px) \in {3, 4}

bg_color == <<15, 23, 42, 255>>

WholeBox(w, h) == <<0, 0, w, h>>

PlainImage(w, h, mode, px) ==
    [width |-> w, height |-> h, mode |-> mode,
     layers |-> << [box |-> WholeBox(w, h), px |-> px] >>]

BoxInside(a, b) ==
    /\ b[1] <= a[1] /\ a[1] + a[3] <= b[1] + b[3]
    /\ b[2] <= a[2] /\ a[2] + a[4] <= b[2] + b[4]

\* A layer covered by a later layer shows no pixel: drop it.
Visible(layers) ==
    LET keep(i) == \A j \in (i + 1)..Len(layers) :
                       ~BoxInside(layers[i].box, layers[j].box)
        RECURSIVE pick(_)
        pick(i) == IF i > Len(layers) THEN <<>>
                   ELSE (IF keep(i) THEN <<layers[i]>> ELSE <<>>) \o pick(i + 1)
    IN  pick(1)

(***************************************************************************)
(* The library calls the scripts make (Pillow).                            *)
(***************************************************************************)
\* img.convert('RGBA'): an RGB pixel gets alpha 255
PixelToRGBA(px) ==
    IF Len(px) = 3 THEN <<px[1], px[2], px[3], 255>> ELSE px

convert_RGBA(img) ==
    [img EXCEPT !.mode = "RGBA",
                !.layers = [i \in 1..Len(img.layers) |->
                    [img.layers[i] EXCEPT !.px = PixelToRGBA(img.layers[i].px)]]]

\* img.resize(size, LANCZOS) raises ValueError unless both sides are >= 1
ResizeRaises(size) == size[1] < 1 \/ size[2] < 1

\* (mutation of resize: width and height exchanged)
resize_swapped(img, size) ==
    IF <<img.width, img.height>> = size THEN img
    ELSE PlainImage(size[2], size[1], img.mode, Resampled)

\* img.resize(size, LANCZOS): a copy when the size is the image's own,
\* otherwise every pixel is computed by the filter
resize(img, size) ==
    IF <<img.width, img.height>> = size THEN img
    ELSE PlainImage(size[1], size[2], img.mode, Resampled)

\* DIV255 and BLEND of the library's paste: out = in1*(255-mask)/255 + in2*mask/255
Div255(a) == LET tmp == a + 128 IN ((tmp \div 256) + tmp) \div 256

Blend(mask, in1, in2) == Div255(in1 * (255 - mask) + in2 * mask)

\* (mutation of PastePixel: paste without the mask)
PastePixel_nomask(under, px) == px

\* one pixel of canvas.paste(im, box, im): each of the four bands of the
\* canvas pixel is blended with the pasted pixel by the pasted pixel's alpha
PastePixel(under, px) ==
    IF IsValue(px) THEN [i \in 1..4 |-> Blend(px[4], under[i], px[i])]
    ELSE << px[1] \o <<"paste">> >>

\* Image.new('RGBA', size, color) followed by paste(im, (x, y), im)
NewAndPaste(size, color, im, x, y) ==
    [width |-> size[1], height |-> size[2], mode |-> "RGBA",
     layers |-> Visible(
        << [box |-> WholeBox(size[1], size[2]), px |-> color] >> \o
        [i \in 1..Len(im.layers) |->
            [box |-> <<im.layers[i].box[1] + x, im.layers[i].box[2] + y,
                       im.layers[i].box[3], im.layers[i].box[4]>>,
             px |-> PastePixel(color, im.layers[i].px)]])]

(***************************************************************************)
(* fix_logos.py: convert_and_resize.  The result holds the locals of the   *)
(* call, whether it saved or raised, and the image saved.                  *)
(***************************************************************************)
convert_and_resize(src, target_size) ==
    LET img == IF src.mode # "RGBA" THEN convert_RGBA(src) ELSE src
        img_ratio == FloatDiv(img.width, img.height)
        square == target_size[1] = target_size[2]
        new_width == IF RatioGreaterThanOne(img_ratio) THEN target_size[1]
                     ELSE IntOfProduct(target_size[2], img_ratio)
        new_height == IF RatioGreaterThanOne(img_ratio)
                      THEN IntOfQuotient(target_size[1], img_ratio)
                      ELSE target_size[2]
        offset_x == (target_size[1] - new_width) \div 2
        offset_y == (target_size[2] - new_height) \div 2
        locals == [op |-> "convert_and_resize", input |-> src,
                   target |-> target_size, square |-> square,
                   new_width |-> IF square THEN new_width ELSE 0,
                   new_height |-> IF square THEN new_height ELSE 0,
                   offset_x |-> IF square THEN offset_x ELSE 0,
                   offset_y |-> IF square THEN offset_y ELSE 0]
    IN  IF square
        THEN IF ResizeRaises(<<new_width, new_height>>)
             THEN locals @@ [outcome |-> "raised", output |-> src]
             ELSE locals @@
                  [outcome |-> "saved",
                   output |-> NewAndPaste(target_size, bg_color,
                                  resize(img, <<new_width, new_height>>),
                                  offset_x, offset_y)]
        ELSE IF ResizeRaises(target_size)
             THEN locals @@ [outcome |-> "raised", output |-> src]
             ELSE locals @@ [outcome |-> "saved",
                             output |-> resize(img, target_size)]

(***************************************************************************)
(* scripts/optimize-logos.py: optimize_png.  size is <<>> for None.        *)
(***************************************************************************)
optimize_png(src, size) ==
    LET img == IF src.mode # "RGBA" THEN convert_RGBA(src) ELSE src
        locals == [op |-> "optimize_png", input |-> src, target |-> size,
                   square |-> FALSE, new_width |-> 0, new_height |-> 0,
                   offset_x |-> 0, offset_y |-> 0]
    IN  IF size # <<>> /\ <<img.width, img.height>> # size
        THEN IF ResizeRaises(size)
             THEN locals @@ [outcome |-> "raised", output |-> src]
             ELSE locals @@ [outcome |-> "saved", output |-> resize(img, size)]
        ELSE locals @@ [outcome |-> "saved", output |-> img]

(***************************************************************************)
(* The image specification: calls of convert_and_resize and optimize_png   *)
(* on one path.  The call reads the file at the path and saves over it, as *)
(* the first conversion of fix_logos does (its output path is its source)  *)
(* and as main of optimize-logos does with the main logo.                  *)
(***************************************************************************)
SourceDims ==
    ((1..MaxDim) \X (1..MaxDim)) \cup {<<300, 200>>, <<9, 7>>, <<7, 9>>}

SourcePixels ==
    [RGB |-> {<<255, 255, 255>>, <<10, 20, 30>>},
     RGBA |-> {<<255, 255, 255, 255>>, <<120, 60, 200, 128>>,
               <<250, 250, 250, 0>>}]

SourceImages ==
    {PlainImage(d[1], d[2], "RGB", p) :
        d \in SourceDims, p \in SourcePixels.RGB} \cup
    {PlainImage(d[1], d[2], "RGBA", p) :
        d \in SourceDims, p \in SourcePixels.RGBA}

SquareTargets == {<<t, t>> : t \in (1..MaxTarget) \cup {48, 72, 192, 512}}

TargetSizes == SquareTargets \cup ((1..MaxTarget) \X (1..MaxTarget))

NoCall == [op |-> "none"]

ImageInit ==
    /\ file \in SourceImages
    /\ call = NoCall
    /\ prev = NoCall

\* one call and the call after it are modelled
ImageMayCall == prev = NoCall

ConvertAndResize(target_size) ==
    /\ ImageMayCall
    /\ call' = convert_and_resize(file, target_size)
    /\ prev' = call
    /\ file' = call'.output
    /\ ImageFrame

OptimizePng(size) ==
    /\ ImageMayCall
    /\ call' = optimize_png(file, size)
    /\ prev' = call
    /\ file' = call'.output
    /\ ImageFrame

ImageNext ==
    \/ \E t \in TargetSizes : ConvertAndResize(t)
    \/ \E t \in TargetSizes \cup {<<>>} : OptimizePng(t)

(***************************************************************************)
(* scripts/remove-white-background.py.  Here an image is the sequence of   *)
(* its pixels, row after row.                                              *)
(***************************************************************************)
\* (mutation of IsWhite: the comparison inverted)
IsWhite_inverted(px, threshold) ==
    px[1] < threshold /\ px[2] < threshold /\ px[3] < threshold

\* line 35 for one pixel: (r > threshold) & (g > threshold) & (b > threshold)
IsWhite(px, threshold) ==
    px[1] > threshold /\ px[2] > threshold /\ px[3] > threshold

\* (mutation of remove_white_background: channels equal to the threshold
\* count as white)
remove_white_background_ge(pixels, threshold) ==
    LET data == [i \in 1..Len(pixels) |-> PixelToRGBA(pixels[i])]
        white_mask == {i \in 1..Len(data) : IsWhite(data[i], threshold - 1)}
    IN  [white_mask |-> white_mask,
         result |-> [i \in 1..Len(data) |->
                        <<data[i][1], data[i][2], data[i][3],
                          IF i \in white_mask THEN 0 ELSE data[i][4]>>]]

\* lines 23-41: convert to RGBA, white_mask, alpha := 0 where white_mask
remove_white_background(pixels, threshold) ==
    LET data == [i \in 1..Len(pixels) |-> PixelToRGBA(pixels[i])]
        white_mask == {i \in 1..Len(data) : IsWhite(data[i], threshold)}
    IN  [white_mask |-> white_mask,
         result |-> [i \in 1..Len(data) |->
                        <<data[i][1], data[i][2], data[i][3],
                          IF i \in white_mask THEN 0 ELSE data[i][4]>>]]

\* int(s) of Python for a string of the characters below: an optional sign
\* and then digits only; anything else raises ValueError
Digits == {"0", "2", "4", "5"}

DigitValue(c) == CASE c = "0" -> 0 [] c = "2" -> 2 [] c = "4" -> 4 [] c = "5" -> 5

RECURSIVE DecimalValue(_)
DecimalValue(s) ==
    IF s = <<>> THEN 0
    ELSE 10 * DecimalValue(SubSeq(s, 1, Len(s) - 1)) + DigitValue(s[Len(s)])

IsIntLiteral(s) ==
    LET body == IF s # <<>> /\ s[1] \in {"-", "+"} THEN Tail(s) ELSE s
    IN  body # <<>> /\ \A i \in 1..Len(body) : body[i] \in Digits

int(s) ==
    IF s[1] = "-" THEN 0 - DecimalValue(Tail(s))
    ELSE IF s[1] = "+" THEN DecimalValue(Tail(s))
    ELSE DecimalValue(s)

BgPixels ==
    {<<255, 255, 255, 255>>, <<241, 241, 241, 200>>, <<241, 240, 255, 255>>,
     <<0, 0, 0, 255>>, <<250, 250, 250>>}

BgImages ==
    UNION {[1..n -> BgPixels] : n \in 1..MaxPixels}

\* sys.argv[3] as typed
ThresholdArgs ==
    {<<"2", "4", "0">>, <<"2", "5", "5">>, <<"2", "5", "4">>, <<"0">>,
     <<"-", "2">>, <<"2", "4", "x">>, <<"a">>, <<>>}

\* sys.argv[1:]: the input path, the output path, the threshold
BgArgvs ==
    {<<>>, <<"in">>, <<"in", "out">>} \cup
    {<<"in", "out", t>> : t \in ThresholdArgs}

\* a file: missing, not decodable as an image, or an image of some size
\* <<width, height>> with its pixels row by row
NoFile == [kind |-> "missing", size |-> <<0, 0>>, pixels |-> <<>>]

ImageFile(size, pixels) == [kind |-> "image", size |-> size, pixels |-> pixels]

\* the sizes an image of n pixels can have
BgSizes(n) == {size \in (1..n) \X (1..n) : size[1] * size[2] = n}

BgInputs ==
    {NoFile, [kind |-> "undecodable", size |-> <<0, 0>>, pixels |-> <<>>]} \cup
    UNION {{ImageFile(size, im) : size \in BgSizes(Len(im))} : im \in BgImages}

\* line 28: np.array(img) has shape (height, width, 4)
np_array_shape(size) == <<size[2], size[1]>>

\* (mutation of fromarray_size: the two axes taken the other way round)
fromarray_size_transposed(shape) == <<shape[1], shape[2]>>

\* line 41: Image.fromarray(data) has size (shape[1], shape[0])
fromarray_size(shape) == <<shape[2], shape[1]>>

NoProc == [pc |-> "none"]

BgInit ==
    /\ bgFiles \in [input : BgInputs, output : {NoFile}, writable : BOOLEAN]
    /\ bgProc = NoProc
    /\ bgRuns = <<>>

BgIdle ==
    /\ bgFiles = [input |-> NoFile, output |-> NoFile, writable |-> FALSE]
    /\ bgProc = NoProc
    /\ bgRuns = <<>>

BgEnded == bgProc.pc \in {"none", "exited"}

Invocations == IF bgProc.pc = "none" THEN 0 ELSE bgProc.run

\* the operator starts the script with some arguments (line 79)
BgInvoke(argv) ==
    /\ BgEnded
    /\ Invocations < MaxBgRuns
    /\ bgProc' = [pc |-> "main", run |-> Invocations + 1, argv |-> argv,
                  threshold |-> 240, white_mask |-> {}, result |-> <<>>,
                  shape |-> <<0, 0>>, saved |-> FALSE,
                  status |-> 0 - 1]
    /\ UNCHANGED <<bgFiles, bgRuns>>
    /\ BgFrame

\* lines 59-70.  int(sys.argv[3]) is outside the try: a ValueError is not
\* caught and the interpreter ends the process with status 1.
BgParseArgs ==
    /\ bgProc.pc = "main"
    /\ IF Len(bgProc.argv) < 1
       THEN bgProc' = [bgProc EXCEPT !.pc = "exited", !.status = 1]
       ELSE IF Len(bgProc.argv) > 2
            THEN IF IsIntLiteral(bgProc.argv[3])
                 THEN bgProc' = [bgProc EXCEPT !.pc = "open",
                                    !.threshold = int(bgProc.argv[3])]
                 ELSE bgProc' = [bgProc EXCEPT !.pc = "exited", !.status = 1]
            ELSE bgProc' = [bgProc EXCEPT !.pc = "open"]
    /\ UNCHANGED <<bgFiles, bgRuns>>
    /\ BgFrame

\* lines 23-41 inside the try of line 72: an input that cannot be opened
\* or decoded raises, the except prints and exits with status 1
BgOpenAndMask ==
    /\ bgProc.pc = "open"
    /\ IF bgFiles.input.kind # "image"
       THEN bgProc' = [bgProc EXCEPT !.pc = "exited", !.status = 1]
       ELSE LET r == remove_white_background(bgFiles.input.pixels,
                                             bgProc.threshold)
            IN  bgProc' = [bgProc EXCEPT !.pc = "save",
                                         !.white_mask = r.white_mask,
                                         !.result = r.result,
                                         !.shape = np_array_shape(
                                                     bgFiles.input.size)]
    /\ UNCHANGED <<bgFiles, bgRuns>>
    /\ BgFrame

\* (mutation of BgSave: the except of line 75 does not exit with status 1)
BgSave_noexit ==
    /\ bgProc.pc = "save"
    /\ IF bgFiles.writable
       THEN /\ bgFiles' = [bgFiles EXCEPT
                             !.output = ImageFile(fromarray_size(bgProc.shape),
                                                  bgProc.result)]
            /\ bgProc' = [bgProc EXCEPT !.pc = "exited", !.saved = TRUE,
                                        !.status = 0]
            /\ bgRuns' = Append(bgRuns,
                    [threshold |-> bgProc.threshold,
                     input |-> bgFiles.input.pixels,
                     input_size |-> bgFiles.input.size,
                     output_size |-> fromarray_size(bgProc.shape),
                     white_mask |-> bgProc.white_mask,
                     output |-> bgProc.result])
       ELSE /\ bgProc' = [bgProc EXCEPT !.pc = "exited", !.status = 0]
            /\ UNCHANGED <<bgFiles, bgRuns>>
    /\ BgFrame

\* line 49 then 74, or 75-77 when the save raises
BgSave ==
    /\ bgProc.pc = "save"
    /\ IF bgFiles.writable
       THEN /\ bgFiles' = [bgFiles EXCEPT
                             !.output = ImageFile(fromarray_size(bgProc.shape),
                                                  bgProc.result)]
            /\ bgProc' = [bgProc EXCEPT !.pc = "exited", !.saved = TRUE,
                                        !.status = 0]
            /\ bgRuns' = Append(bgRuns,
                    [threshold |-> bgProc.threshold,
                     input |-> bgFiles.input.pixels,
                     input_size |-> bgFiles.input.size,
                     output_size |-> fromarray_size(bgProc.shape),
                     white_mask |-> bgProc.white_mask,
                     output |-> bgProc.result])
       ELSE /\ bgProc' = [bgProc EXCEPT !.pc = "exited", !.status = 1]
            /\ UNCHANGED <<bgFiles, bgRuns>>
    /\ BgFrame

BgNext ==
    \/ \E argv \in BgArgvs : BgInvoke(argv)
    \/ BgParseArgs
    \/ BgOpenAndMask
    \/ BgSave

(***************************************************************************)
(* remove_white_background as a function: applied to a file and then to    *)
(* the file it saved, with one threshold (lines 23-49 twice).              *)
(***************************************************************************)
\* the thresholds main can pass: the default and the integers of argv[3]
BgThresholds == {240} \cup {int(t) : t \in {a \in ThresholdArgs : IsIntLiteral(a)}}

NoTwice == [pc |-> "idle", input |-> NoFile, threshold |-> 240,
            once |-> NoFile, again |-> NoFile]

TwiceInit ==
    twice \in {[NoTwice EXCEPT !.pc = "start", !.input = f, !.threshold = t] :
                  f \in {g \in BgInputs : g.kind = "image"},
                  t \in BgThresholds}

\* (mutation of SavedResult: the pixels outside the mask lose half their alpha)
SavedResult_halved(f, threshold) ==
    LET r == remove_white_background(f.pixels, threshold)
    IN  ImageFile(fromarray_size(np_array_shape(f.size)),
                  [i \in 1..Len(r.result) |->
                      <<r.result[i][1], r.result[i][2], r.result[i][3],
                        r.result[i][4] \div 2>>])

\* lines 23-49: the file remove_white_background saves for an image file
SavedResult(f, threshold) ==
    ImageFile(fromarray_size(np_array_shape(f.size)),
              remove_white_background(f.pixels, threshold).result)

ApplyOnce ==
    /\ twice.pc = "start"
    /\ twice' = [twice EXCEPT !.pc = "once",
                              !.once = SavedResult(twice.input,
                                                   twice.threshold)]
    /\ UNCHANGED naming
    /\ FnFrame

\* the same call on the file the first call saved
ApplyAgain ==
    /\ twice.pc = "once"
    /\ twice' = [twice EXCEPT !.pc = "twice",
                              !.again = SavedResult(twice.once,
                                                    twice.threshold)]
    /\ UNCHANGED naming
    /\ FnFrame

TwiceNext ==
    \/ ApplyOnce
    \/ ApplyAgain

(***************************************************************************)
(* remove_white_background: the output path (lines 43-46).  A path is the  *)
(* sequence of its pieces; '.' is a piece of its own and no other piece    *)
(* holds one.                                                              *)
(***************************************************************************)
PathPieces == {"logo", "/", ".", "png", "-transparent"}

\* every path of at most MaxPath pieces
PathStrings == UNION {[1..n -> PathPieces] : n \in 0..MaxPath}

\* output_path as passed: None, or a path
NoOutputPath == [given |-> FALSE, path |-> <<>>]

\* what a caller can pass as output_path: nothing, the input path itself,
\* another path
OutputPathArgs(input_path) ==
    {NoOutputPath, [given |-> TRUE, path |-> input_path],
     [given |-> TRUE, path |-> <<"out", ".", "png">>]}

NoNaming == [pc |-> "idle", input_path |-> <<>>, output_arg |-> NoOutputPath,
             output_path |-> <<>>]

NamingInit ==
    naming \in UNION {{[NoNaming EXCEPT !.pc = "call", !.input_path = p,
                                        !.output_arg = o] :
                          o \in OutputPathArgs(p)} : p \in PathStrings}

\* input_path.rsplit('.', 1)[0]: the path up to its last '.', all of it
\* when it has none
RECURSIVE rsplit_dot(_)
rsplit_dot(path) ==
    IF path = <<>> THEN <<>>
    ELSE IF path[Len(path)] = "."
         THEN SubSeq(path, 1, Len(path) - 1)
         ELSE LET head == SubSeq(path, 1, Len(path) - 1)
              IN  IF \E i \in 1..Len(head) : head[i] = "."
                  THEN rsplit_dot(head)
                  ELSE path

\* (mutation of DefaultOutputPath: only the extension is replaced)
DefaultOutputPath_extension(input_path) ==
    rsplit_dot(input_path) \o <<".", "png">>

\* lines 45-46
DefaultOutputPath(input_path) ==
    rsplit_dot(input_path) \o <<"-transparent", ".", "png">>

\* lines 43-46
DetermineOutputPath ==
    /\ naming.pc = "call"
    /\ naming' = [naming EXCEPT
                    !.pc = "determined",
                    !.output_path =
                        IF naming.output_arg.given
                        THEN naming.output_arg.path
                        ELSE DefaultOutputPath(naming.input_path)]
    /\ UNCHANGED twice
    /\ FnFrame

NamingNext == DetermineOutputPath

FnIdle == twice = NoTwice /\ naming = NoNaming

(***************************************************************************)
(* scripts/verify_aab.py.  A text is the sequence of its characters, the   *)
(* literals the checks search for each being one character of the model    *)
(* ("versionCode", "proguardFiles", ...).  A file is missing, a text, or   *)
(* present but unreadable (no permission, a directory, bytes that do not   *)
(* decode): filepath.exists() is true of it and open()/read() raises.      *)
(***************************************************************************)
TextFile(text) == [kind |-> "text", text |-> text]

MissingFile == [kind |-> "missing", text |-> <<>>]

UnreadableFile == [kind |-> "unreadable", text |-> <<>>]

\* line 48: check_file_exists
check_file_exists(f) == f.kind # "missing"

Whitespace == {" ", "\n"}

DigitChars == {"0", "7"}

\* 'needle' in content, for a needle of several characters
RECURSIVE Contains(_, _)
Contains(content, needle) ==
    IF Len(content) < Len(needle) THEN FALSE
    ELSE IF SubSeq(content, 1, Len(needle)) = needle THEN TRUE
    ELSE Contains(Tail(content), needle)

\* the longest run of characters of a set at the head of a text
RECURSIVE RunOf(_, _)
RunOf(text, set) ==
    IF text # <<>> /\ text[1] \in set
    THEN <<text[1]>> \o RunOf(Tail(text), set) ELSE <<>>

Drop(text, n) == SubSeq(text, n + 1, Len(text))

\* re.match at the head of text of  versionCode\s+(\d+) : group 1, or <<>>.
\* \s+ and \d+ are greedy and share no character, so each takes its longest
\* run and no backtracking finds another match.
MatchVersionCode(text) ==
    IF text = <<>> \/ text[1] # "versionCode" THEN <<>>
    ELSE LET ws == RunOf(Tail(text), Whitespace)
         IN  IF ws = <<>> THEN <<>>
             ELSE RunOf(Drop(Tail(text), Len(ws)), DigitChars)

\* (mutation of SearchVersionCode: the rightmost match instead of the leftmost)
RECURSIVE SearchVersionCode_last(_)
SearchVersionCode_last(content) ==
    IF content = <<>> THEN <<>>
    ELSE IF SearchVersionCode_last(Tail(content)) # <<>>
         THEN SearchVersionCode_last(Tail(content))
         ELSE MatchVersionCode(content)

\* re.search(r'versionCode\s+(\d+)', content).group(1): the leftmost match;
\* <<>> when there is none
RECURSIVE SearchVersionCode(_)
SearchVersionCode(content) ==
    IF content = <<>> THEN <<>>
    ELSE IF MatchVersionCode(content) # <<>> THEN MatchVersionCode(content)
    ELSE SearchVersionCode(Tail(content))

\* re.match at the head of text of  versionName\s+"([^"]+)" : group 1, or <<>>
MatchVersionName(text) ==
    IF text = <<>> \/ text[1] # "versionName" THEN <<>>
    ELSE LET ws == RunOf(Tail(text), Whitespace)
             rest == Drop(Tail(text), Len(ws))
         IN  IF ws = <<>> \/ rest = <<>> \/ rest[1] # "\"" THEN <<>>
             ELSE LET name == RunOf(Tail(rest),
                                    {rest[i] : i \in 1..Len(rest)} \ {"\""})
                  IN  IF name # <<>> /\ Len(rest) > Len(name) + 1 THEN name
                      ELSE <<>>

RECURSIVE SearchVersionName(_)
SearchVersionName(content) ==
    IF content = <<>> THEN <<>>
    ELSE IF MatchVersionName(content) # <<>> THEN MatchVersionName(content)
    ELSE SearchVersionName(Tail(content))

\* what a check did: its return value, the issues it collected, and the
\* warnings it printed for tests that add no issue
Raised == [outcome |-> "raised", result |-> FALSE, issues |-> {},
           version_code |-> <<>>, warned |-> {}]

Returned(issues) == [outcome |-> "returned", result |-> issues = {},
                     issues |-> issues, version_code |-> <<>>,
                     warned |-> {}]

\* (mutation of check_build_gradle: no minification is an issue)
check_build_gradle_minify(f) ==
    IF ~check_file_exists(f)
    THEN [Returned({}) EXCEPT !.result = FALSE]
    ELSE IF f.kind = "unreadable" THEN Raised
    ELSE LET content == f.text
             issues ==
                (IF Contains(content, <<"namespace", " ", "\"",
                                        "com.zikalyze.app", "\"">>)
                 THEN {} ELSE {"namespace"})
                \cup (IF SearchVersionCode(content) # <<>>
                      THEN {} ELSE {"versionCode"})
                \cup (IF SearchVersionName(content) # <<>>
                      THEN {} ELSE {"versionName"})
                \cup (IF Contains(content, <<"proguardFiles">>)
                      THEN {} ELSE {"proguard"})
                \cup (IF Contains(content, <<"minifyEnabled true">>)
                      THEN {} ELSE {"minifyEnabled"})
             warned == IF Contains(content, <<"minifyEnabled true">>)
                       THEN {} ELSE {"minifyEnabled"}
         IN  [Returned(issues) EXCEPT
                 !.version_code = SearchVersionCode(content),
                 !.warned = warned]

\* lines 57-107.  The test for 'minifyEnabled true' (lines 95-98) prints a
\* warning and appends nothing to issues.
check_build_gradle(f) ==
    IF ~check_file_exists(f)
    THEN [Returned({}) EXCEPT !.result = FALSE]
    ELSE IF f.kind = "unreadable" THEN Raised
    ELSE LET content == f.text
             issues ==
                (IF Contains(content, <<"namespace", " ", "\"",
                                        "com.zikalyze.app", "\"">>)
                 THEN {} ELSE {"namespace"})
                \cup (IF SearchVersionCode(content) # <<>>
                      THEN {} ELSE {"versionCode"})
                \cup (IF SearchVersionName(content) # <<>>
                      THEN {} ELSE {"versionName"})
                \cup (IF Contains(content, <<"proguardFiles">>)
                      THEN {} ELSE {"proguard"})
             warned == IF Contains(content, <<"minifyEnabled true">>)
                       THEN {} ELSE {"minifyEnabled"}
         IN  [Returned(issues) EXCEPT
                 !.version_code = SearchVersionCode(content),
                 !.warned = warned]

\* content.lower(), for the characters that have an upper case
LowerChar(c) ==
    CASE c = "JavaScript" -> "javascript"
      [] c = "Capacitor" -> "capacitor"
      [] c = "Cordova" -> "cordova"
      [] OTHER -> c

lower(content) == [i \in 1..Len(content) |-> LowerChar(content[i])]

\* content.split('\n')
RECURSIVE split_lines(_)
split_lines(content) ==
    LET line == RunOf(content, {content[i] : i \in 1..Len(content)} \ {"\n"})
    IN  IF Len(line) = Len(content) THEN <<line>>
        ELSE <<line>> \o split_lines(Drop(content, Len(line) + 1))

\* line.strip()
RECURSIVE lstrip(_)
lstrip(line) ==
    IF line # <<>> /\ line[1] \in Whitespace THEN lstrip(Tail(line)) ELSE line

RECURSIVE rstrip(_)
rstrip(line) ==
    IF line # <<>> /\ line[Len(line)] \in Whitespace
    THEN rstrip(SubSeq(line, 1, Len(line) - 1)) ELSE line

strip(line) == rstrip(lstrip(line))

\* lines 131-137 for one line of the rules file
IsSourceAttributesLine(raw) ==
    LET line == strip(raw)
    IN  /\ line # <<>> /\ line[1] = "-keepattributes"
        /\ Contains(line, <<"SourceFile">>)
        /\ Contains(line, <<"LineNumberTable">>)
        /\ line[1] # "#"

\* (mutation of check_proguard_rules: the three words are looked for in the
\* whole content, not line by line)
check_proguard_rules_wholefile(f) ==
    IF ~check_file_exists(f)
    THEN [Returned({}) EXCEPT !.result = FALSE]
    ELSE IF f.kind = "unreadable" THEN Raised
    ELSE LET content == f.text
             has_source_attributes ==
                /\ Contains(content, <<"-keepattributes">>)
                /\ Contains(content, <<"SourceFile">>)
                /\ Contains(content, <<"LineNumberTable">>)
         IN  Returned(
                (IF Contains(content, <<"-keepclassmembers">>)
                    /\ Contains(lower(content), <<"javascript">>)
                 THEN {} ELSE {"javascript-interface"})
                \cup (IF has_source_attributes
                      THEN {} ELSE {"source-attributes"})
                \cup (IF Contains(lower(content), <<"capacitor">>)
                         \/ Contains(lower(content), <<"cordova">>)
                      THEN {} ELSE {"capacitor-rules"}))

\* lines 109-153
check_proguard_rules(f) ==
    IF ~check_file_exists(f)
    THEN [Returned({}) EXCEPT !.result = FALSE]
    ELSE IF f.kind = "unreadable" THEN Raised
    ELSE LET content == f.text
             lines == split_lines(content)
             has_source_attributes ==
                \E i \in 1..Len(lines) : IsSourceAttributesLine(lines[i])
         IN  Returned(
                (IF Contains(content, <<"-keepclassmembers">>)
                    /\ Contains(lower(content), <<"javascript">>)
                 THEN {} ELSE {"javascript-interface"})
                \cup (IF has_source_attributes
                      THEN {} ELSE {"source-attributes"})
                \cup (IF Contains(lower(content), <<"capacitor">>)
                         \/ Contains(lower(content), <<"cordova">>)
                      THEN {} ELSE {"capacitor-rules"}))

\* (mutation of check_manifest: the INTERNET permission is not looked for)
check_manifest_nopermission(f) ==
    IF ~check_file_exists(f)
    THEN [Returned({}) EXCEPT !.result = FALSE]
    ELSE IF f.kind = "unreadable" THEN Raised
    ELSE LET content == f.text
         IN  Returned(
                (IF Contains(content, <<"android:exported=\"true\"">>)
                      THEN {} ELSE {"activity-export"})
                \cup (IF Contains(content, <<"android.intent.action.MAIN">>)
                         /\ Contains(content,
                                <<"android.intent.category.LAUNCHER">>)
                      THEN {} ELSE {"launcher-intent"}))

\* lines 155-194.  The application-ID test (lines 175-178) prints a warning
\* and appends nothing to issues.
check_manifest(f) ==
    IF ~check_file_exists(f)
    THEN [Returned({}) EXCEPT !.result = FALSE]
    ELSE IF f.kind = "unreadable" THEN Raised
    ELSE LET content == f.text
             warned == IF Contains(content, <<"${applicationId}">>)
                          \/ Contains(content, <<"com.zikalyze.app">>)
                       THEN {} ELSE {"applicationId"}
         IN  [Returned(
                (IF Contains(content, <<"android.permission.INTERNET">>)
                 THEN {} ELSE {"internet-permission"})
                \cup (IF Contains(content, <<"android:exported=\"true\"">>)
                      THEN {} ELSE {"activity-export"})
                \cup (IF Contains(content, <<"android.intent.action.MAIN">>)
                         /\ Contains(content,
                                <<"android.intent.category.LAUNCHER">>)
                      THEN {} ELSE {"launcher-intent"}))
                EXCEPT !.warned = warned]

\* lines 196-221: only exists() is asked of the two pages
check_privacy_compliance(privacy_html, terms_html) ==
    Returned((IF privacy_html.kind # "missing" THEN {} ELSE {"privacy-policy"})
             \cup (IF terms_html.kind # "missing"
                   THEN {} ELSE {"terms-of-service"}))

\* lines 223-259: the bundletool probe is inside try/except and only prints
check_aab_file(aab) ==
    [Returned({}) EXCEPT !.result = aab.kind # "missing"]

(***************************************************************************)
(* verify_aab.py: main, one step per check.  An exception a check raises   *)
(* is caught nowhere: it leaves main and sys.exit(main()) of line 349 is   *)
(* never reached with a value; the interpreter prints the traceback and    *)
(* ends the process with status 1.                                         *)
(***************************************************************************)
NotRun == [outcome |-> "not run", result |-> FALSE, issues |-> {},
           version_code |-> <<>>, warned |-> {}]

VerStart ==
    [pc |-> "check_build_gradle", all_passed |-> TRUE, returned |-> FALSE,
     status |-> 0 - 1,
     results |-> [build_gradle |-> NotRun, proguard_rules |-> NotRun,
                  manifest |-> NotRun, privacy_compliance |-> NotRun,
                  aab_file |-> NotRun]]

\* (mutation of AfterCheck: a check that returns False ends the checks)
AfterCheck_stopAtFailure(v, r, next) ==
    IF r.outcome = "raised"
    THEN [v EXCEPT !.pc = "exited", !.status = 1]
    ELSE [v EXCEPT !.pc = IF r.result THEN next ELSE "summary",
                   !.all_passed = v.all_passed /\ r.result]

\* all_passed &= check(): lines 320-323
AfterCheck(v, r, next) ==
    IF r.outcome = "raised"
    THEN [v EXCEPT !.pc = "exited", !.status = 1]
    ELSE [v EXCEPT !.pc = next, !.all_passed = v.all_passed /\ r.result]

GoodGradleText ==
    <<"namespace", " ", "\"", "com.zikalyze.app", "\"", "\n",
      "versionCode", " ", "7", "\n",
      "versionName", " ", "\"", "x", "\"", "\n",
      "minifyEnabled true", "\n", "proguardFiles">>

GradleSamples ==
    {MissingFile, UnreadableFile, TextFile(GoodGradleText),
     TextFile(SubSeq(GoodGradleText, 1, 16)),
     TextFile(<<"versionCode", " ", "0", "\n", "versionCode", " ", "7">>)}

\* every text of at most MaxText characters about the version code
GradleTexts ==
    UNION {[1..n -> {"versionCode", " ", "7", "0", "x"}] : n \in 0..MaxText}

GoodProguardText ==
    <<"-keepclassmembers", " ", "JavaScript", "\n",
      " ", "-keepattributes", " ", "SourceFile", ",", "LineNumberTable", "\n",
      "Capacitor">>

ProguardSamples ==
    {MissingFile, UnreadableFile, TextFile(GoodProguardText),
     TextFile(<<"#", " ", "-keepattributes", " ", "SourceFile", ",",
                "LineNumberTable", "\n", "-keepclassmembers", " ",
                "javascript", " ", "cordova">>)}

ManifestWords ==
    <<"android.permission.INTERNET", "${applicationId}",
      "android:exported=\"true\"", "android.intent.action.MAIN",
      "android.intent.category.LAUNCHER">>

\* the words of a sequence at the places in S, in order
RECURSIVE Pick(_, _)
Pick(words, S) ==
    IF words = <<>> THEN <<>>
    ELSE Pick(SubSeq(words, 1, Len(words) - 1), S) \o
         (IF Len(words) \in S THEN <<"\n", words[Len(words)]>> ELSE <<>>)

ManifestSamples ==
    {MissingFile, UnreadableFile} \cup
    {TextFile(Pick(ManifestWords, S)) : S \in SUBSET (1..Len(ManifestWords))}

PageSamples == {MissingFile, TextFile(<<>>)}

\* the whole script, over many states of the files
VerInit ==
    /\ verFiles \in [build_gradle : GradleSamples,
                     proguard_rules : ProguardSamples,
                     manifest : ManifestSamples,
                     privacy_html : PageSamples,
                     terms_html : PageSamples,
                     aab : PageSamples]
    /\ ver = VerStart

\* the whole script, over many build.gradle texts
GradleInit ==
    /\ verFiles \in [build_gradle : {TextFile(t) : t \in GradleTexts}
                                    \cup GradleSamples,
                     proguard_rules : {TextFile(GoodProguardText)},
                     manifest : {TextFile(Pick(ManifestWords,
                                               1..Len(ManifestWords)))},
                     privacy_html : {TextFile(<<>>)},
                     terms_html : {TextFile(<<>>)},
                     aab : {MissingFile}]
    /\ ver = VerStart

\* every rules text of at most MaxRules words about the source attributes
ProguardTexts ==
    UNION {[1..n -> {"-keepattributes", "SourceFile", "LineNumberTable",
                     "#", " ", "\n"}] : n \in 0..MaxRules}

\* the whole script, over many proguard-rules.pro texts
ProguardInit ==
    /\ verFiles \in [build_gradle : {TextFile(GoodGradleText)},
                     proguard_rules : {TextFile(t) : t \in ProguardTexts}
                                      \cup ProguardSamples,
                     manifest : {TextFile(Pick(ManifestWords,
                                               1..Len(ManifestWords)))},
                     privacy_html : {TextFile(<<>>)},
                     terms_html : {TextFile(<<>>)},
                     aab : {MissingFile}]
    /\ ver = VerStart

\* build.gradle texts made of five lines, each one absent, as the check wants
\* it, or nearly so
GradleLineChoices ==
    << {<<>>,
        <<"namespace", " ", "\"", "com.zikalyze.app", "\"", "\n">>,
        <<"namespace", "\"", "com.zikalyze.app", "\"", "\n">>},
       {<<>>,
        <<"versionCode", " ", "7", "\n">>,
        <<"versionCode", "7", "\n">>,
        <<"versionCode", "\n", " ", "0", "7", "\n">>},
       {<<>>,
        <<"versionName", " ", "\"", "x", "\"", "\n">>,
        <<"versionName", " ", "\"", "\"", "\n">>,
        <<"versionName", " ", "\"", "x", "\n">>},
       {<<>>, <<"minifyEnabled true", "\n">>},
       {<<>>, <<"proguardFiles">>} >>

FlagGradleTexts ==
    {a \o b \o c \o d \o e :
        a \in GradleLineChoices[1], b \in GradleLineChoices[2],
        c \in GradleLineChoices[3], d \in GradleLineChoices[4],
        e \in GradleLineChoices[5]}

\* the whole script, over build.gradle and manifest texts that have or lack
\* each thing the two checks look for
FlagsInit ==
    /\ verFiles \in [build_gradle : {TextFile(t) : t \in FlagGradleTexts}
                                    \cup {MissingFile, UnreadableFile},
                     proguard_rules : {TextFile(GoodProguardText)},
                     manifest : ManifestSamples,
                     privacy_html : {TextFile(<<>>)},
                     terms_html : {TextFile(<<>>)},
                     aab : {MissingFile}]
    /\ ver = VerStart

VerIdle ==
    /\ verFiles = [build_gradle |-> MissingFile, proguard_rules |-> MissingFile,
                   manifest |-> MissingFile, privacy_html |-> MissingFile,
                   terms_html |-> MissingFile, aab |-> MissingFile]
    /\ ver = [VerStart EXCEPT !.pc = "idle"]

\* line 320
VerCheckBuildGradle ==
    /\ ver.pc = "check_build_gradle"
    /\ LET r == check_build_gradle(verFiles.build_gradle)
       IN  ver' = [AfterCheck(ver, r, "check_proguard_rules")
                       EXCEPT !.results.build_gradle = r]
    /\ UNCHANGED verFiles
    /\ VerFrame

\* line 321
VerCheckProguardRules ==
    /\ ver.pc = "check_proguard_rules"
    /\ LET r == check_proguard_rules(verFiles.proguard_rules)
       IN  ver' = [AfterCheck(ver, r, "check_manifest")
                       EXCEPT !.results.proguard_rules = r]
    /\ UNCHANGED verFiles
    /\ VerFrame

\* line 322
VerCheckManifest ==
    /\ ver.pc = "check_manifest"
    /\ LET r == check_manifest(verFiles.manifest)
       IN  ver' = [AfterCheck(ver, r, "check_privacy_compliance")
                       EXCEPT !.results.manifest = r]
    /\ UNCHANGED verFiles
    /\ VerFrame

\* line 323
VerCheckPrivacyCompliance ==
    /\ ver.pc = "check_privacy_compliance"
    /\ LET r == check_privacy_compliance(verFiles.privacy_html,
                                         verFiles.terms_html)
       IN  ver' = [AfterCheck(ver, r, "check_aab_file")
                       EXCEPT !.results.privacy_compliance = r]
    /\ UNCHANGED verFiles
    /\ VerFrame

\* (mutation of VerCheckAabFile: the AAB check counted like the others)
VerCheckAabFile_counted ==
    /\ ver.pc = "check_aab_file"
    /\ LET r == check_aab_file(verFiles.aab)
       IN  ver' = [AfterCheck(ver, r, "summary") EXCEPT !.results.aab_file = r]
    /\ UNCHANGED verFiles
    /\ VerFrame

\* line 324: the result is dropped
VerCheckAabFile ==
    /\ ver.pc = "check_aab_file"
    /\ LET r == check_aab_file(verFiles.aab)
       IN  ver' = [ver EXCEPT !.pc = "summary", !.results.aab_file = r]
    /\ UNCHANGED verFiles
    /\ VerFrame

\* lines 325-346, then sys.exit of line 349
VerSummary ==
    /\ ver.pc = "summary"
    /\ ver' = [ver EXCEPT !.pc = "exited", !.returned = TRUE,
                          !.status = IF ver.all_passed THEN 0 ELSE 1]
    /\ UNCHANGED verFiles
    /\ VerFrame

VerNext ==
    \/ VerCheckBuildGradle
    \/ VerCheckProguardRules
    \/ VerCheckManifest
    \/ VerCheckPrivacyCompliance
    \/ VerCheckAabFile
    \/ VerSummary

(***************************************************************************)
(* fix_logos.py main and scripts/optimize-logos.py main, over a file       *)
(* system.  A path holds no file, a file that is no image, or an image.    *)
(***************************************************************************)
NoImage == [width |-> 0, height |-> 0, mode |-> "", layers |-> <<>>]

Absent == [kind |-> "missing", image |-> NoImage]

Undecodable == [kind |-> "undecodable", image |-> NoImage]

Stored(img) == [kind |-> "image", image |-> img]

\* a file whose header tells an image of this mode and size and whose pixel
\* data cannot be decoded: Image.open succeeds, any use of the pixels raises
Truncated(img) == [kind |-> "truncated", image |-> img]

source_logo == "src/assets/zikalyze-logo.png"

Densities == <<"mdpi", "hdpi", "xhdpi", "xxhdpi", "xxxhdpi">>

\* (mutation of ANDROID_ICONS: hdpi icons of the mdpi size)
ANDROID_ICONS_hdpi48 ==
    [mdpi |-> 48, hdpi |-> 48, xhdpi |-> 96, xxhdpi |-> 144, xxxhdpi |-> 192]

ANDROID_ICONS ==
    [mdpi |-> 48, hdpi |-> 72, xhdpi |-> 96, xxhdpi |-> 144, xxxhdpi |-> 192]

IconNames ==
    <<"ic_launcher.png", "ic_launcher_round.png", "ic_launcher_foreground.png">>

\* the 3 * 5 launcher icons, density by density: <<input, output, size>>
AndroidItems ==
    [i \in 1..(Len(Densities) * Len(IconNames)) |->
        LET density == Densities[((i - 1) \div Len(IconNames)) + 1]
            name == IconNames[((i - 1) % Len(IconNames)) + 1]
        IN  <<source_logo,
              "android/app/src/main/res/mipmap-" \o density \o "/" \o name,
              <<ANDROID_ICONS[density], ANDROID_ICONS[density]>> >>]

\* fix_logos.py lines 79-110: the table of <<input, output, size>>, written
\* out entry by entry as the script writes it
conversions ==
    << <<source_logo,
         "src/assets/zikalyze-logo.png",
         <<512, 512>> >>,
       <<source_logo,
         "public/pwa-512x512.png",
         <<512, 512>> >>,
       <<source_logo,
         "public/pwa-192x192.png",
         <<192, 192>> >>,
       <<source_logo,
         "public/favicon.png",
         <<48, 48>> >>,
       <<source_logo,
         "android/app/src/main/res/mipmap-mdpi/ic_launcher.png",
         <<48, 48>> >>,
       <<source_logo,
         "android/app/src/main/res/mipmap-mdpi/ic_launcher_round.png",
         <<48, 48>> >>,
       <<source_logo,
         "android/app/src/main/res/mipmap-mdpi/ic_launcher_foreground.png",
         <<48, 48>> >>,
       <<source_logo,
         "android/app/src/main/res/mipmap-hdpi/ic_launcher.png",
         <<72, 72>> >>,
       <<source_logo,
         "android/app/src/main/res/mipmap-hdpi/ic_launcher_round.png",
         <<72, 72>> >>,
       <<source_logo,
         "android/app/src/main/res/mipmap-hdpi/ic_launcher_foreground.png",
         <<72, 72>> >>,
       <<source_logo,
         "android/app/src/main/res/mipmap-xhdpi/ic_launcher.png",
         <<96, 96>> >>,
       <<source_logo,
         "android/app/src/main/res/mipmap-xhdpi/ic_launcher_round.png",
         <<96, 96>> >>,
       <<source_logo,
         "android/app/src/main/res/mipmap-xhdpi/ic_launcher_foreground.png",
         <<96, 96>> >>,
       <<source_logo,
         "android/app/src/main/res/mipmap-xxhdpi/ic_launcher.png",
         <<144, 144>> >>,
       <<source_logo,
         "android/app/src/main/res/mipmap-xxhdpi/ic_launcher_round.png",
         <<144, 144>> >>,
       <<source_logo,
         "android/app/src/main/res/mipmap-xxhdpi/ic_launcher_foreground.png",
         <<144, 144>> >>,
       <<source_logo,
         "android/app/src/main/res/mipmap-xxxhdpi/ic_launcher.png",
         <<192, 192>> >>,
       <<source_logo,
         "android/app/src/main/res/mipmap-xxxhdpi/ic_launcher_round.png",
         <<192, 192>> >>,
       <<source_logo,
         "android/app/src/main/res/mipmap-xxxhdpi/ic_launcher_foreground.png",
         <<192, 192>> >> >>

\* optimize-logos.py lines 105-119: <<input, output, size>>, the output
\* being written as output.new and then moved over output
MainItems ==
    << <<source_logo, "src/assets/zikalyze-logo.png", <<512, 512>> >>,
       <<source_logo, "public/pwa-512x512.png", <<512, 512>> >>,
       <<source_logo, "public/pwa-192x192.png", <<192, 192>> >>,
       <<source_logo, "public/favicon.png", <<48, 48>> >> >>

Outputs ==
    {conversions[i][2] : i \in 1..Len(conversions)}
        \cup {MainItems[i][2] : i \in 1..Len(MainItems)}
        \cup {AndroidItems[i][2] : i \in 1..Len(AndroidItems)}

Paths == Outputs \cup {p \o ".new" : p \in {MainItems[i][2] : i \in 1..4}}

\* Image.open, the conversion and the save of one file by convert_and_resize
\* (lines 21-61) or optimize_png (lines 32-56): the call record, with
\* outcome "raised" when the input is no image, when the resize raises or
\* when the output cannot be written
OneFile(op, input, output, size) ==
    IF fs[input].kind # "image"
    THEN [outcome |-> "raised", output |-> NoImage]
    ELSE LET c == IF op = "convert_and_resize"
                  THEN convert_and_resize(fs[input].image, size)
                  ELSE optimize_png(fs[input].image, size)
         IN  IF c.outcome = "saved" /\ output \in unwritable
             THEN [outcome |-> "raised", output |-> NoImage]
             ELSE [outcome |-> c.outcome, output |-> c.output]

LoopSources ==
    {Absent, Undecodable,
     Stored(PlainImage(300, 200, "RGB", <<10, 20, 30>>)),
     Stored(PlainImage(512, 512, "RGBA", <<120, 60, 200, 128>>)),
     Stored(PlainImage(1, 100, "RGB", <<10, 20, 30>>)),
     Stored(PlainImage(1, 600, "RGBA", <<120, 60, 200, 128>>)),
     Truncated(PlainImage(512, 512, "RGBA", <<120, 60, 200, 128>>))}

\* what an earlier run or the operator left at an output path
OldOutputs ==
    {Absent, Stored(PlainImage(7, 7, "RGB", <<10, 20, 30>>)),
     Stored(PlainImage(48, 48, "RGBA", <<120, 60, 200, 128>>))}

NoRun == [script |-> "none", pc |-> "idle", i |-> 0, attempted |-> {},
          failed |-> {}, verified |-> <<>>, status |-> 0 - 1,
          written |-> <<>>, before |-> [src |-> Absent, old |-> Absent]]

\* the subsets of S of at most k elements
RECURSIVE SubsetsUpTo(_, _)
SubsetsUpTo(S, k) ==
    IF k = 0 THEN {{}}
    ELSE LET P == SubsetsUpTo(S, k - 1)
         IN  P \cup {T \cup {x} : T \in P, x \in S}

\* the tree a script is started in: the source logo, and at every other
\* output path nothing or an old file
StartTree(src, old) ==
    [p \in Paths |-> IF p = source_logo THEN src
                     ELSE IF p \in Outputs THEN old ELSE Absent]

LoopInit ==
    /\ \E src \in LoopSources, old \in OldOutputs :
          /\ fs = StartTree(src, old)
          /\ \E script \in {"fix_logos", "optimize-logos"} :
                run = [NoRun EXCEPT !.script = script, !.pc = "start",
                                    !.before = [src |-> src, old |-> old]]
    /\ unwritable \in SubsetsUpTo(Paths, MaxUnwritable)

LoopIdle ==
    /\ fs = [p \in Paths |-> Absent]
    /\ unwritable = {}
    /\ run = NoRun

\* The steps of the two scripts, for a run r: the tree and the run after
\* the step.
\* fix_logos.py lines 70-72: no source logo, main returns
FixStartStep(r) ==
    [fs |-> fs,
     run |-> IF fs[source_logo].kind = "missing"
             THEN [r EXCEPT !.pc = "exited", !.status = 0]
             ELSE [r EXCEPT !.pc = "convert", !.i = 1]]

\* fix_logos.py lines 115-119: one turn of the conversion loop
FixConvertStep(r) ==
    LET item == conversions[r.i]
        c == OneFile("convert_and_resize", item[1], item[2], item[3])
    IN  [fs |-> IF c.outcome = "saved"
                THEN [fs EXCEPT ![item[2]] = Stored(c.output)] ELSE fs,
         run |-> [r EXCEPT
                    !.attempted = @ \cup {r.i},
                    !.failed = IF c.outcome = "raised"
                               THEN @ \cup {r.i} ELSE @,
                    !.written = IF c.outcome = "saved"
                                THEN Append(@, item[2]) ELSE @,
                    !.i = IF r.i = Len(conversions) THEN 1 ELSE @ + 1,
                    !.pc = IF r.i = Len(conversions) THEN "verify" ELSE @]]

FixStart ==
    /\ run.script = "fix_logos" /\ run.pc = "start"
    /\ fs' = FixStartStep(run).fs
    /\ run' = FixStartStep(run).run
    /\ UNCHANGED unwritable
    /\ LoopFrame

FixConvert ==
    /\ run.script = "fix_logos" /\ run.pc = "convert"
    /\ fs' = FixConvertStep(run).fs
    /\ run' = FixConvertStep(run).run
    /\ UNCHANGED unwritable
    /\ LoopFrame

\* fix_logos.py lines 128-138: what is printed for one output.  Image.open
\* reads the header only; img.width and img.height come from it.
VerifyMark(f, expected_size) ==
    IF f.kind = "missing" THEN "not created"
    ELSE IF f.kind = "undecodable" THEN "error reading"
    ELSE IF <<f.image.width, f.image.height>> = expected_size
         THEN "ok" ELSE "wrong size"

\* (mutation of FixVerify: the size is not compared)
FixVerify_nosize ==
    /\ run.script = "fix_logos" /\ run.pc = "verify"
    /\ LET item == conversions[run.i]
           f == fs[item[2]]
           mark == IF f.kind = "missing" THEN "not created"
                   ELSE IF f.kind = "undecodable" THEN "error reading"
                   ELSE "ok"
       IN  run' = [run EXCEPT
                     !.verified = Append(@, mark),
                     !.i = @ + 1,
                     !.pc = IF run.i = Len(conversions) THEN "exited" ELSE @,
                     !.status = IF run.i = Len(conversions) THEN 0 ELSE @]
    /\ UNCHANGED <<fs, unwritable>>
    /\ LoopFrame

\* fix_logos.py lines 127-138: one turn of the verification loop; after the
\* last turn main returns
FixVerifyStep(r) ==
    LET item == conversions[r.i]
        mark == VerifyMark(fs[item[2]], item[3])
    IN  [fs |-> fs,
         run |-> [r EXCEPT
                    !.verified = Append(@, mark),
                    !.i = @ + 1,
                    !.pc = IF r.i = Len(conversions) THEN "exited" ELSE @,
                    !.status = IF r.i = Len(conversions) THEN 0 ELSE @]]

FixVerify ==
    /\ run.script = "fix_logos" /\ run.pc = "verify"
    /\ fs' = FixVerifyStep(run).fs
    /\ run' = FixVerifyStep(run).run
    /\ UNCHANGED unwritable
    /\ LoopFrame

\* optimize-logos.py lines 105-119: one of the four optimize_png calls of
\* main with its os.replace; an exception ends the script
OptMainItemStep(r) ==
    LET k == IF r.pc = "start" THEN 1 ELSE r.i
        item == MainItems[k]
        c == OneFile("optimize_png", item[1], item[2] \o ".new", item[3])
    IN  [fs |-> IF c.outcome = "saved"
                THEN [fs EXCEPT ![item[2]] = Stored(c.output)] ELSE fs,
         run |-> IF c.outcome = "raised"
                 THEN [r EXCEPT !.pc = "exited", !.status = 1]
                 ELSE [r EXCEPT !.i = k + 1,
                                !.written = Append(@, item[2]),
                                !.pc = IF k = Len(MainItems)
                                       THEN "open" ELSE "main"]]

\* optimize-logos.py line 73: create_android_icons opens the source
OptOpenSourceStep(r) ==
    [fs |-> fs,
     run |-> IF fs[source_logo].kind \in {"missing", "undecodable"}
             THEN [r EXCEPT !.pc = "exited", !.status = 1]
             ELSE [r EXCEPT !.pc = "icons", !.i = 1]]

\* optimize-logos.py lines 76-92: one optimize_png call of the density loop;
\* nothing catches its exception, which ends the script; after the last
\* call main prints and returns
OptIconStep(r) ==
    LET item == AndroidItems[r.i]
        c == OneFile("optimize_png", item[1], item[2], item[3])
    IN  [fs |-> IF c.outcome = "saved"
                THEN [fs EXCEPT ![item[2]] = Stored(c.output)] ELSE fs,
         run |-> IF c.outcome = "raised"
                 THEN [r EXCEPT !.pc = "exited", !.status = 1,
                                !.attempted = @ \cup {r.i},
                                !.failed = @ \cup {r.i}]
                 ELSE [r EXCEPT
                         !.attempted = @ \cup {r.i},
                         !.written = Append(@, item[2]),
                         !.i = @ + 1,
                         !.pc = IF r.i = Len(AndroidItems)
                                THEN "exited" ELSE @,
                         !.status = IF r.i = Len(AndroidItems)
                                    THEN 0 ELSE @]]

\* (mutation of OptMainItem: the image is saved over the destination itself,
\* which a save that fails leaves without content)
OptMainItem_inPlace ==
    /\ run.script = "optimize-logos" /\ run.pc \in {"start", "main"}
    /\ fs' = IF OptMainItemStep(run).run.status = 1
             THEN [fs EXCEPT ![MainItems[IF run.pc = "start"
                                         THEN 1 ELSE run.i][2]] = Undecodable]
             ELSE OptMainItemStep(run).fs
    /\ run' = OptMainItemStep(run).run
    /\ UNCHANGED unwritable
    /\ LoopFrame

OptMainItem ==
    /\ run.script = "optimize-logos" /\ run.pc \in {"start", "main"}
    /\ fs' = OptMainItemStep(run).fs
    /\ run' = OptMainItemStep(run).run
    /\ UNCHANGED unwritable
    /\ LoopFrame

OptOpenSource ==
    /\ run.script = "optimize-logos" /\ run.pc = "open"
    /\ fs' = OptOpenSourceStep(run).fs
    /\ run' = OptOpenSourceStep(run).run
    /\ UNCHANGED unwritable
    /\ LoopFrame

\* (mutation of OptIcon: a failure puts the tree back as it was at the start)
OptIcon_rollback ==
    /\ run.script = "optimize-logos" /\ run.pc = "icons"
    /\ fs' = IF OptIconStep(run).run.status = 1
             THEN StartTree(run.before.src, run.before.old)
             ELSE OptIconStep(run).fs
    /\ run' = OptIconStep(run).run
    /\ UNCHANGED unwritable
    /\ LoopFrame

OptIcon ==
    /\ run.script = "optimize-logos" /\ run.pc = "icons"
    /\ fs' = OptIconStep(run).fs
    /\ run' = OptIconStep(run).run
    /\ UNCHANGED unwritable
    /\ LoopFrame

LoopNext ==
    \/ FixStart
    \/ FixConvert
    \/ FixVerify
    \/ OptMainItem
    \/ OptOpenSource
    \/ OptIcon

(***************************************************************************)
(* Two logo scripts at once.  Nothing in fix_logos.py or optimize-logos.py *)
(* takes a lock, so two runs started by two operators share the tree.  A   *)
(* run is cut at its file-system calls: img.save opens the output (which   *)
(* empties it), writes, and closes; os.replace is one call.  Between two   *)
(* calls of one run the other run may act.  An open file follows its inode:*)
(* a rename moves it, a rename over it unlinks it.                         *)
(***************************************************************************)
NoWrite == [phase |-> "none", saveas |-> "", at |-> "", file |-> Absent,
            replace |-> "", then |-> NoRun]

NoWriter == [id |-> 0, file |-> Absent, torn |-> FALSE]

NoIo == [turn |-> 0, switches |-> 0,
         pending |-> <<NoWrite, NoWrite>>, torn |-> {},
         writer |-> [p \in Paths |-> NoWriter]]

ConcSources == {Stored(PlainImage(300, 200, "RGB", <<10, 20, 30>>))}

\* the paths that may be unwritable when two scripts run: an icon in the
\* middle of both scripts' lists
ConcUnwritable == {AndroidItems[8][2]}

ConcInit ==
    /\ \E src \in ConcSources :
          /\ fs = StartTree(src, Absent)
          /\ \E s1, s2 \in {"fix_logos", "optimize-logos"} :
                /\ run = [NoRun EXCEPT !.script = s1, !.pc = "start",
                                       !.before = [src |-> src, old |-> Absent]]
                /\ other = [NoRun EXCEPT !.script = s2, !.pc = "start",
                                         !.before = [src |-> src,
                                                     old |-> Absent]]
    /\ unwritable \in SubsetsUpTo(ConcUnwritable, MaxUnwritable)
    /\ io = [NoIo EXCEPT !.turn = 1]

ConcIdle ==
    /\ other = NoRun
    /\ io = NoIo

Proc(X) == IF X = 1 THEN run ELSE other

SetProc(X, r) ==
    IF X = 1 THEN run' = r /\ UNCHANGED other
    ELSE other' = r /\ UNCHANGED run

\* the next statement of a script, with its save done at once
ScriptStep(r) ==
    IF r.script = "fix_logos"
    THEN CASE r.pc = "start" -> FixStartStep(r)
           [] r.pc = "convert" -> FixConvertStep(r)
           [] r.pc = "verify" -> FixVerifyStep(r)
    ELSE CASE r.pc \in {"start", "main"} -> OptMainItemStep(r)
           [] r.pc = "open" -> OptOpenSourceStep(r)
           [] r.pc = "icons" -> OptIconStep(r)

\* the operating system lets run X act: it is running, or the running one
\* has exited, or the system switches.  The run started first is run 1.
MayStep(X) ==
    \/ io.turn = X
    \/ Proc(io.turn).pc = "exited"
    \/ io.switches < MaxSwitches

Sched(X) ==
    [io EXCEPT !.turn = X,
               !.switches = IF io.turn = X \/ Proc(io.turn).pc = "exited"
                            THEN @ ELSE @ + 1]

\* what a file may hold when two saves of it overlapped: one of the two
\* contents or a mix of their bytes that no decoder reads
TornFiles(a, b) == {a, b, Undecodable}

\* a statement of run X up to its next file-system call: a statement that
\* saves nothing is done whole; a save reads its input, computes, and opens
\* its output, which is empty or partly written until the save ends
ConcBegin(X) ==
    /\ Proc(X).pc \notin {"idle", "exited"}
    /\ io.pending[X].phase = "none"
    /\ MayStep(X)
    /\ \E s \in {ScriptStep(Proc(X))} :
          LET r == Proc(X)
              Y == 3 - X
              wrote == Len(s.run.written) > Len(r.written)
              path == s.run.written[Len(s.run.written)]
              isMain == /\ r.script = "optimize-logos"
                        /\ r.pc \in {"start", "main"}
              saveas == IF isMain THEN path \o ".new" ELSE path
              content == s.fs[path]
              overlap == /\ io.pending[Y].phase = "writing"
                         /\ io.pending[Y].at = saveas
          IN  IF ~wrote
              THEN /\ fs' = fs
                   /\ SetProc(X, s.run)
                   /\ io' = Sched(X)
              ELSE \E partial \in {Undecodable, Truncated(content.image)},
                      o \in (IF overlap
                             THEN TornFiles(content, io.pending[Y].file)
                             ELSE {content}) :
                      /\ fs' = [fs EXCEPT ![saveas] = partial]
                      /\ SetProc(X, r)
                      /\ io' = [Sched(X) EXCEPT
                                  !.pending[X] =
                                      [phase |-> "writing", saveas |-> saveas,
                                       at |-> saveas, file |-> content,
                                       replace |-> IF isMain THEN path
                                                   ELSE "",
                                       then |-> s.run],
                                  !.torn = IF overlap
                                           THEN @ \cup {[at |-> saveas,
                                                         file |-> o]}
                                           ELSE @]
    /\ UNCHANGED unwritable
    /\ ConcFrame

\* (mutation of FinishedFile: what was written is dropped)
FinishedFile_lost(w, Y) == fs[w.at]

\* the file a save leaves at its path when it ends, Y being the other run:
\* still partly written while Y writes it too, one of TornFiles after
\* overlapping saves, else what was saved
FinishedFile(w, Y) ==
    LET tornHere == {t \in io.torn : t.at = w.at}
    IN  IF io.pending[Y].phase = "writing" /\ io.pending[Y].at = w.at
        THEN fs[w.at]
        ELSE IF tornHere # {} THEN (CHOOSE t \in tornHere : TRUE).file
        ELSE w.file

\* the end of a save of run X, and in optimize_png the os.path.getsize
\* calls after it (lines 59-60), which raise when the path is gone
ConcFinish(X) ==
    LET r == Proc(X)
        Y == 3 - X
        w == io.pending[X]
        otherWriting == /\ io.pending[Y].phase = "writing"
                        /\ io.pending[Y].at = w.at
        tornHere == {t \in io.torn : t.at = w.at}
        fs2 == IF w.at = "unlinked" THEN fs
               ELSE [fs EXCEPT ![w.at] = FinishedFile(w, Y)]
        getsizeRaises == /\ r.script = "optimize-logos"
                         /\ \/ fs2[source_logo].kind = "missing"
                            \/ fs2[w.saveas].kind = "missing"
        io2 == [Sched(X) EXCEPT
                  !.torn = IF otherWriting THEN @ ELSE @ \ tornHere,
                  !.writer = IF w.at = "unlinked" THEN @
                             ELSE [@ EXCEPT ![w.at] =
                                      [id |-> X, file |-> w.file,
                                       torn |-> tornHere # {}]]]
    IN  /\ w.phase = "writing"
        /\ MayStep(X)
        /\ fs' = fs2
        /\ IF getsizeRaises
           THEN /\ SetProc(X, [r EXCEPT !.pc = "exited", !.status = 1])
                /\ io' = [io2 EXCEPT !.pending[X] = NoWrite]
           ELSE IF w.replace # ""
           THEN /\ SetProc(X, r)
                /\ io' = [io2 EXCEPT !.pending[X].phase = "replace"]
           ELSE /\ SetProc(X, w.then)
                /\ io' = [io2 EXCEPT !.pending[X] = NoWrite]
        /\ UNCHANGED unwritable
        /\ ConcFrame

\* os.replace(path + '.new', path) of optimize-logos main (lines 106-119):
\* it raises when the .new file is gone, and nothing catches that
ConcReplace(X) ==
    LET r == Proc(X)
        Y == 3 - X
        w == io.pending[X]
        v == io.pending[Y]
        moved(at) == IF at = w.saveas THEN w.replace
                     ELSE IF at = w.replace THEN "unlinked" ELSE at
    IN  /\ w.phase = "replace"
        /\ MayStep(X)
        /\ IF fs[w.saveas].kind = "missing"
           THEN /\ fs' = fs
                /\ SetProc(X, [r EXCEPT !.pc = "exited", !.status = 1])
                /\ io' = [Sched(X) EXCEPT !.pending[X] = NoWrite]
           ELSE /\ fs' = [fs EXCEPT ![w.replace] = fs[w.saveas],
                                    ![w.saveas] = Absent]
                /\ SetProc(X, w.then)
                /\ io' = [Sched(X) EXCEPT
                            !.pending[X] = NoWrite,
                            !.pending[Y] =
                                IF v.phase = "writing"
                                THEN [v EXCEPT !.at = moved(v.at)] ELSE v,
                            !.torn = {[t EXCEPT !.at = moved(t.at)] :
                                         t \in {u \in @ : u.at # w.replace}},
                            !.writer = [@ EXCEPT
                                          ![w.replace] = io.writer[w.saveas],
                                          ![w.saveas] = NoWriter]]
        /\ UNCHANGED unwritable
        /\ ConcFrame

ConcNext ==
    \/ \E X \in {1, 2} : ConcBegin(X)
    \/ \E X \in {1, 2} : ConcFinish(X)
    \/ \E X \in {1, 2} : ConcReplace(X)

(***************************************************************************)
(* The graphics scripts: generate_graphics.py, scripts/                    *)
(* create_feature_graphic.py, scripts/create-playstore-assets.py,          *)
(* scripts/generate-chart-logo.py, scripts/generate-professional-logo.py.  *)
(* A file is known by what made it; a graphic also by whether the logo was *)
(* pasted on it and by the fonts its texts were drawn with.                *)
(***************************************************************************)
AssetFile(kind, made_by, mode, size, logo, fonts) ==
    [kind |-> kind, made_by |-> made_by, mode |-> mode, size |-> size,
     logo |-> logo, fonts |-> fonts]

NoAsset == AssetFile("missing", "", "", <<0, 0>>, "none", <<>>)

BadAsset == AssetFile("undecodable", "before", "", <<0, 0>>, "none", <<>>)

\* a logo that was there before the script ran
OldLogo(mode) == AssetFile("image", "before", mode, <<512, 512>>, "none", <<>>)

logo_path == "src/assets/zikalyze-logo.png"

LOGO_PATH == "public/pwa-512x512.png"

OUTPUT_DIR == "android/play-store-assets"

AssetPaths ==
    {logo_path, LOGO_PATH, "public/feature-graphic.png", "public/og-image.png",
     OUTPUT_DIR \o "/icon-512x512.png",
     OUTPUT_DIR \o "/feature-graphic-1024x500.png",
     OUTPUT_DIR \o "/README.md",
     "src/assets/zikalyze-logo-backup.png", "src/assets/zikalyze-logo-old.png"}

Bold == "/usr/share/fonts/truetype/dejavu/DejaVuSans-Bold.ttf"

Sans == "/usr/share/fonts/truetype/dejavu/DejaVuSans.ttf"

\* ImageFont.truetype raises when the library has no FreeType or the font
\* file cannot be read
TruetypeLoads(font) == env.freetype /\ font \in env.fontFiles

\* ImageFont.load_default(): a FreeType font where the library has one
\* built in, otherwise the bitmap font
load_default == IF env.freetype /\ env.aileron THEN "default" ELSE "bitmap"

\* try: three truetype loads; except: three load_default (the second try of
\* scripts/create_feature_graphic.py asks for the same files again)
LoadFonts(wanted) ==
    IF \A i \in 1..Len(wanted) : TruetypeLoads(wanted[i])
    THEN [i \in 1..Len(wanted) |-> "truetype"]
    ELSE [i \in 1..Len(wanted) |-> load_default]

\* draw.text: the bitmap font takes Latin-1 text only and raises
\* UnicodeEncodeError on any other character.  texts: <<font index, latin1>>
DrawTextRaises(fonts, texts) ==
    \E i \in 1..Len(texts) : fonts[texts[i][1]] = "bitmap" /\ ~texts[i][2]

\* try: Image.open, resize, paste  except: print.  "pasted" or "failed"
PasteLogo(f) == IF f.kind = "image" THEN "pasted" ELSE "failed"

\* One graphic: the logo block, the font block, the texts and the save.
\* guarded: the logo block is under  if os.path.exists(logo_path)
\* The result: the files after it, what was printed about the logo, and
\* whether an exception left the function.
Graphic(made_by, mode, size, logo, guarded, wanted, texts, output) ==
    LET f == assets[logo]
        pasted == IF guarded /\ f.kind = "missing" THEN "skipped"
                  ELSE PasteLogo(f)
        fonts == LoadFonts(wanted)
        raised == DrawTextRaises(fonts, texts) \/ output \in env.readOnly
    IN  [raised |-> raised,
         logo |-> pasted,
         printed |-> IF pasted = "failed" THEN {"Could not load logo"} ELSE {},
         fonts |-> fonts,
         assets |-> IF raised THEN assets
                    ELSE [assets EXCEPT ![output] =
                            AssetFile("image", made_by, mode, size,
                                      IF pasted = "pasted" THEN "pasted"
                                      ELSE "none", fonts)]]

\* generate_graphics.py lines 17-99
create_feature_graphic ==
    Graphic("generate_graphics.create_feature_graphic", "RGB", <<1024, 500>>,
            logo_path, TRUE, <<Bold, Sans, Bold>>,
            << <<1, TRUE>>, <<2, TRUE>>, <<3, FALSE>> >>,
            "public/feature-graphic.png")

\* generate_graphics.py lines 101-216
create_og_image ==
    Graphic("generate_graphics.create_og_image", "RGBA", <<1200, 630>>,
            logo_path, TRUE, <<Bold, Sans, Bold>>,
            << <<1, TRUE>>, <<2, TRUE>>, <<3, FALSE>>, <<3, FALSE>>,
               <<3, FALSE>>, <<1, TRUE>>, <<2, TRUE>> >>,
            "public/og-image.png")

\* scripts/create_feature_graphic.py lines 30-115
scripts_create_feature_graphic ==
    Graphic("create_feature_graphic.create_feature_graphic", "RGB",
            <<1024, 500>>, LOGO_PATH, FALSE, <<Bold, Sans, Sans>>,
            << <<1, TRUE>>, <<2, TRUE>>, <<3, FALSE>> >>,
            "public/feature-graphic.png")

GfxScripts ==
    {"generate_graphics", "create_feature_graphic", "create-playstore-assets",
     "generate-chart-logo", "generate-professional-logo"}

NoJob == [script |-> "none", pc |-> "idle", status |-> 0 - 1, printed |-> {},
          logo |-> <<>>, fonts |-> <<>>, saved |-> {}, before |-> NoAsset]

GfxLogos == {NoAsset, BadAsset, OldLogo("RGB"), OldLogo("RGBA")}

GfxInit ==
    /\ \E a, b \in GfxLogos :
          /\ assets = [p \in AssetPaths |-> IF p = logo_path THEN a
                                            ELSE IF p = LOGO_PATH THEN b
                                            ELSE NoAsset]
          /\ \E script \in GfxScripts :
                job = [NoJob EXCEPT !.script = script, !.pc = "start",
                                    !.before = a]
    /\ env \in [freetype : BOOLEAN, aileron : BOOLEAN,
                fontFiles : SUBSET {Bold, Sans},
                readOnly : SubsetsUpTo(AssetPaths, MaxReadOnly),
                noDir : BOOLEAN]

GfxIdle ==
    /\ assets = [p \in AssetPaths |-> NoAsset]
    /\ env = [freetype |-> TRUE, aileron |-> TRUE, fontFiles |-> {Bold, Sans},
              readOnly |-> {}, noDir |-> FALSE]
    /\ job = NoJob

\* what a function of a script leaves in the job: its log, and status 1
\* when its exception left the script
AfterGraphic(g, next) ==
    [job EXCEPT !.pc = IF g.raised THEN "exited" ELSE next,
                !.status = IF g.raised THEN 1
                           ELSE IF next = "exited" THEN 0 ELSE @,
                !.printed = @ \cup g.printed,
                !.logo = Append(@, g.logo),
                !.fonts = Append(@, g.fonts),
                !.saved = {p \in AssetPaths : g.assets[p] # assets[p]} \cup @]

\* generate_graphics.py line 229
GenCreateFeatureGraphic ==
    /\ job.script = "generate_graphics" /\ job.pc = "start"
    /\ assets' = create_feature_graphic.assets
    /\ job' = AfterGraphic(create_feature_graphic, "create_og_image")
    /\ UNCHANGED env
    /\ GfxFrame

\* generate_graphics.py lines 230-238
GenCreateOgImage ==
    /\ job.script = "generate_graphics" /\ job.pc = "create_og_image"
    /\ assets' = create_og_image.assets
    /\ job' = AfterGraphic(create_og_image, "exited")
    /\ UNCHANGED env
    /\ GfxFrame

\* scripts/create_feature_graphic.py line 118
FgCreateFeatureGraphic ==
    /\ job.script = "create_feature_graphic" /\ job.pc = "start"
    /\ assets' = scripts_create_feature_graphic.assets
    /\ job' = AfterGraphic(scripts_create_feature_graphic, "exited")
    /\ UNCHANGED env
    /\ GfxFrame

\* scripts/create-playstore-assets.py, the whole module: lines 17-172.
\* Nothing is inside a try; the files saved before an exception stay.
CreatePlaystoreAssets ==
    /\ job.script = "create-playstore-assets" /\ job.pc = "start"
    /\ LET logo == assets[logo_path]
           icon == OUTPUT_DIR \o "/icon-512x512.png"
           feature == OUTPUT_DIR \o "/feature-graphic-1024x500.png"
           readme == OUTPUT_DIR \o "/README.md"
           made == "create-playstore-assets"
           a1 == [assets EXCEPT ![icon] =
                    AssetFile("image", made, logo.mode, <<512, 512>>,
                              "pasted", <<>>)]
           a2 == [a1 EXCEPT ![feature] =
                    AssetFile("image", made, "RGB", <<1024, 500>>,
                              "pasted", <<>>)]
           a3 == [a2 EXCEPT ![readme] =
                    AssetFile("text", made, "", <<0, 0>>, "none", <<>>)]
           ends(a, status) ==
               /\ assets' = a
               /\ job' = [job EXCEPT !.pc = "exited", !.status = status,
                             !.saved = {p \in AssetPaths : a[p] # assets[p]}]
       IN  IF env.noDir \/ logo.kind # "image" \/ icon \in env.readOnly
           THEN ends(assets, 1)
           ELSE IF feature \in env.readOnly THEN ends(a1, 1)
           ELSE IF readme \in env.readOnly THEN ends(a2, 1)
           ELSE ends(a3, 0)
    /\ UNCHANGED env
    /\ GfxFrame

NewLogo(made_by) ==
    AssetFile("image", made_by, "RGBA", <<512, 512>>, "none", <<>>)

\* generate-chart-logo main with the save ahead of the copy
ChartLogoMain_saveFirst ==
    /\ job.script = "generate-chart-logo" /\ job.pc = "start"
    /\ LET backup_path == "src/assets/zikalyze-logo-backup.png"
           exists == assets[logo_path].kind # "missing"
           a1 == [assets EXCEPT ![logo_path] = NewLogo("generate-chart-logo")]
           a2 == IF exists
                 THEN [a1 EXCEPT ![backup_path] = a1[logo_path]]
                 ELSE a1
           ends(a, status, printed) ==
               /\ assets' = a
               /\ job' = [job EXCEPT !.pc = "exited", !.status = status,
                             !.printed = printed,
                             !.saved = {p \in AssetPaths : a[p] # assets[p]}]
       IN  IF logo_path \in env.readOnly THEN ends(assets, 1, {})
           ELSE IF exists /\ backup_path \in env.readOnly
                THEN ends(a1, 1, {})
                ELSE ends(a2, 0, IF exists THEN {"Backup"} ELSE {})
    /\ UNCHANGED env
    /\ GfxFrame

\* scripts/generate-chart-logo.py main, lines 160-181: the backup copy,
\* then the save
ChartLogoMain ==
    /\ job.script = "generate-chart-logo" /\ job.pc = "start"
    /\ LET backup_path == "src/assets/zikalyze-logo-backup.png"
           exists == assets[logo_path].kind # "missing"
           a1 == IF exists
                 THEN [assets EXCEPT ![backup_path] = assets[logo_path]]
                 ELSE assets
           a2 == [a1 EXCEPT ![logo_path] = NewLogo("generate-chart-logo")]
           ends(a, status, printed) ==
               /\ assets' = a
               /\ job' = [job EXCEPT !.pc = "exited", !.status = status,
                             !.printed = printed,
                             !.saved = {p \in AssetPaths : a[p] # assets[p]}]
       IN  IF exists /\ backup_path \in env.readOnly
           THEN ends(assets, 1, {})
           ELSE IF logo_path \in env.readOnly
                THEN ends(a1, 1, IF exists THEN {"Backup"} ELSE {})
                ELSE ends(a2, 0, IF exists THEN {"Backup"} ELSE {})
    /\ UNCHANGED env
    /\ GfxFrame

\* scripts/generate-professional-logo.py main, lines 165-185: the save,
\* then the copy of what is now at the output path
ProfessionalLogoMain ==
    /\ job.script = "generate-professional-logo" /\ job.pc = "start"
    /\ LET backup_path == "src/assets/zikalyze-logo-old.png"
           a1 == [assets EXCEPT
                    ![logo_path] = NewLogo("generate-professional-logo")]
           a2 == [a1 EXCEPT ![backup_path] = a1[logo_path]]
           ends(a, status, printed) ==
               /\ assets' = a
               /\ job' = [job EXCEPT !.pc = "exited", !.status = status,
                             !.printed = printed,
                             !.saved = {p \in AssetPaths : a[p] # assets[p]}]
       IN  IF logo_path \in env.readOnly THEN ends(assets, 1, {})
           ELSE IF backup_path \in env.readOnly THEN ends(a1, 1, {})
           ELSE ends(a2, 0, {"Backup"})
    /\ UNCHANGED env
    /\ GfxFrame

GfxNext ==
    \/ GenCreateFeatureGraphic
    \/ GenCreateOgImage
    \/ FgCreateFeatureGraphic
    \/ CreatePlaystoreAssets
    \/ ChartLogoMain
    \/ ProfessionalLogoMain

ImageIdle ==
    /\ file = PlainImage(1, 1, "RGBA", bg_color)
    /\ call = NoCall
    /\ prev = NoCall

ImageSpecInit ==
    ImageInit /\ BgIdle /\ VerIdle /\ LoopIdle /\ GfxIdle /\ ConcIdle /\ FnIdle

ImageSpec == ImageSpecInit /\ [][ImageNext]_vars

BgSpecInit ==
    BgInit /\ ImageIdle /\ VerIdle /\ LoopIdle /\ GfxIdle /\ ConcIdle /\ FnIdle

BgSpec == BgSpecInit /\ [][BgNext]_vars

VerifySpecInit ==
    VerInit /\ ImageIdle /\ BgIdle /\ LoopIdle /\ GfxIdle /\ ConcIdle /\ FnIdle

VerifySpec == VerifySpecInit /\ [][VerNext]_vars

GradleSpecInit ==
    GradleInit /\ ImageIdle /\ BgIdle /\ LoopIdle /\ GfxIdle /\ ConcIdle /\ FnIdle

GradleSpec == GradleSpecInit /\ [][VerNext]_vars

ProguardSpecInit ==
    ProguardInit /\ ImageIdle /\ BgIdle /\ LoopIdle /\ GfxIdle /\ ConcIdle /\ FnIdle

ProguardSpec == ProguardSpecInit /\ [][VerNext]_vars

FlagsSpecInit ==
    FlagsInit /\ ImageIdle /\ BgIdle /\ LoopIdle /\ GfxIdle /\ ConcIdle /\ FnIdle

FlagsSpec == FlagsSpecInit /\ [][VerNext]_vars

LoopSpecInit ==
    LoopInit /\ ImageIdle /\ BgIdle /\ VerIdle /\ GfxIdle /\ ConcIdle /\ FnIdle

LoopSpec == LoopSpecInit /\ [][LoopNext]_vars

GfxSpecInit ==
    GfxInit /\ ImageIdle /\ BgIdle /\ VerIdle /\ LoopIdle /\ ConcIdle /\ FnIdle

GfxSpec == GfxSpecInit /\ [][GfxNext]_vars

ConcSpecInit ==
    ConcInit /\ ImageIdle /\ BgIdle /\ VerIdle /\ GfxIdle /\ FnIdle

ConcSpec == ConcSpecInit /\ [][ConcNext]_vars

TwiceSpecInit ==
    /\ TwiceInit /\ naming = NoNaming
    /\ ImageIdle /\ BgIdle /\ VerIdle /\ LoopIdle /\ GfxIdle /\ ConcIdle

TwiceSpec == TwiceSpecInit /\ [][TwiceNext]_vars

NamingSpecInit ==
    /\ NamingInit /\ twice = NoTwice
    /\ ImageIdle /\ BgIdle /\ VerIdle /\ LoopIdle /\ GfxIdle /\ ConcIdle

NamingSpec == NamingSpecInit /\ [][NamingNext]_vars

(***************************************************************************)
(* Claims about convert_and_resize and optimize_png (ImageSpec).           *)
(***************************************************************************)
Saved(c) == c.op # "none" /\ c.outcome = "saved"

SizeOf(img) == <<img.width, img.height>>

\* the call was asked for the size its source already has
SameSize(c) == c.op # "none" /\ c.target # <<>> /\ SizeOf(c.input) = c.target

\* the pixels of an image, read as RGBA
PixelsOf(img) == convert_RGBA(img).layers

\* C1: whenever convert_and_resize, or optimize_png called with a size,
\* saves an image, the saved image is exactly target width by target height.
C1_SavedSizeIsTarget ==
    (Saved(call) /\ call.target # <<>>) =>
        /\ file = call.output
        /\ file.width = call.target[1]
        /\ file.height = call.target[2]

\* C1 witness: an optimize_png call that resized to a non-square size after a
\* convert_and_resize call that resized a 300 by 200 source to 512 by 512.
C1_Witness ==
    /\ Saved(prev) /\ prev.op = "convert_and_resize"
    /\ SizeOf(prev.input) = <<300, 200>> /\ prev.target = <<512, 512>>
    /\ Saved(call) /\ call.op = "optimize_png"
    /\ call.target = <<3, 2>> /\ SizeOf(file) = <<3, 2>>

\* C2 (as claimed): after convert_and_resize with a square target T saved,
\* the output is T by T, the longer side of the scaled source is T and the
\* other is floor(T * shorter / longer), the paste offset is
\* (floor((T - new_width) / 2), floor((T - new_height) / 2)) with margins
\* differing by at most one, every pixel outside the pasted box is bg_color,
\* and a 300 by 200 source with T = 512 gives a 512 by 341 box at (0, 85).
C2_FitAndCenter ==
    (Saved(call) /\ call.op = "convert_and_resize" /\ call.square) =>
        LET T == call.target[1]
            w == call.input.width
            h == call.input.height
            nw == call.new_width
            nh == call.new_height
            pasted == <<call.offset_x, call.offset_y, nw, nh>>
        IN  /\ SizeOf(call.output) = <<T, T>>
            /\ IF w > h THEN nw = T /\ nh = (T * h) \div w
                        ELSE nh = T /\ nw = (T * w) \div h
            /\ call.offset_x = (T - nw) \div 2
            /\ call.offset_y = (T - nh) \div 2
            /\ (T - nw - call.offset_x) - call.offset_x \in {0, 1}
            /\ (T - nh - call.offset_y) - call.offset_y \in {0, 1}
            /\ \A i \in 1..Len(call.output.layers) :
                  ~BoxInside(call.output.layers[i].box, pasted)
                      => call.output.layers[i].px = bg_color
            /\ (w = 300 /\ h = 200 /\ T = 512) => pasted = <<0, 85, 512, 341>>

OpaqueOrClear(img) ==
    \A i \in 1..Len(img.layers) :
        /\ IsValue(img.layers[i].px)
        /\ PixelsOf(img)[i].px[4] \in {0, 255}

C4_MaskMonotonic ==
    \A i, j \in 1..Len(bgRuns) :
        (bgRuns[i].input = bgRuns[j].input
            /\ bgRuns[i].threshold <= bgRuns[j].threshold) =>
            /\ bgRuns[j].white_mask \subseteq bgRuns[i].white_mask
            /\ Cardinality(bgRuns[j].white_mask)
                   <= Cardinality(bgRuns[i].white_mask)

\* C4 witness: two runs on one input, the second with a higher threshold
\* and strictly fewer pixels made transparent, yet some.
C4_Witness ==
    /\ Len(bgRuns) >= 2
    /\ bgRuns[1].input = bgRuns[2].input
    /\ bgRuns[1].threshold < bgRuns[2].threshold
    /\ bgRuns[2].white_mask # {}
    /\ bgRuns[2].white_mask # bgRuns[1].white_mask
    /\ bgRuns[2].white_mask \subseteq bgRuns[1].white_mask

\* C13: in every saved run, a pixel's alpha is 0 exactly where its red,
\* green and blue are all strictly above the threshold; every other pixel
\* keeps its alpha (255 for a pixel that had none) and every pixel keeps
\* its colour; with threshold 255 no pixel is made transparent.
C13_AlphaZeroIffWhite ==
    \A k \in 1..Len(bgRuns) :
        LET r == bgRuns[k]
            t == r.threshold
        IN  /\ Len(r.output) = Len(r.input)
            /\ \A i \in 1..Len(r.input) :
                  LET px == r.input[i]
                      alpha == IF Len(px) = 4 THEN px[4] ELSE 255
                      white == px[1] > t /\ px[2] > t /\ px[3] > t
                  IN  /\ i \in r.white_mask <=> white
                      /\ r.output[i] = <<px[1], px[2], px[3],
                                         IF white THEN 0 ELSE alpha>>
            /\ t = 255 => r.white_mask = {}

\* a run with threshold 255 on a pure white opaque pixel, which stays
\* opaque, after a run with the default threshold that cleared it and kept
\* the alpha of a pixel with one channel equal to the threshold
C13_Witness ==
    /\ Len(bgRuns) = 2
    /\ bgRuns[1].threshold = 240 /\ bgRuns[2].threshold = 255
    /\ bgRuns[1].input = <<<<255, 255, 255, 255>>, <<241, 240, 255, 255>>>>
    /\ bgRuns[2].input = bgRuns[1].input
    /\ bgRuns[1].output = <<<<255, 255, 255, 0>>, <<241, 240, 255, 255>>>>
    /\ bgRuns[2].output = bgRuns[2].input

BgArgError(p) ==
    \/ Len(p.argv) < 1
    \/ Len(p.argv) > 2 /\ ~IsIntLiteral(p.argv[3])

\* C9: the process exits with status 1 when no input argument is given,
\* when the threshold argument is not an integer, when the input cannot be
\* opened or decoded and when the output cannot be saved; it exits with
\* status 0 only after the output image has been saved.
C9_ExitStatus ==
    /\ bgProc.pc = "exited" =>
        /\ bgProc.status \in {0, 1}
        /\ BgArgError(bgProc) => bgProc.status = 1
        /\ bgFiles.input.kind # "image" => bgProc.status = 1
        /\ ~bgFiles.writable => bgProc.status = 1
    /\ (bgProc.pc # "none" /\ bgProc.status = 0) =>
        /\ bgProc.pc = "exited"
        /\ bgProc.saved
        /\ bgFiles.output = ImageFile(fromarray_size(bgProc.shape),
                                      bgProc.result)

\* C9 witness: a second invocation that got a good threshold and a decodable
\* input, failed to save and exited with status 1.
C9_Witness ==
    /\ bgProc.pc = "exited" /\ bgProc.run = 2
    /\ ~BgArgError(bgProc) /\ Len(bgProc.argv) = 3
    /\ bgFiles.input.kind = "image"
    /\ ~bgFiles.writable /\ ~bgProc.saved
    /\ bgProc.status = 1

(***************************************************************************)
(* verify_aab.py                                                           *)
(***************************************************************************)
GradleChecked ==
    /\ verFiles.build_gradle.kind = "text"
    /\ ver.results.build_gradle.outcome = "returned"

HasVersionCode7 ==
    Contains(verFiles.build_gradle.text, <<"versionCode", " ", "7">>)

\* the places of the text where  versionCode\s+(\d+)  matches
VersionCodeMatches ==
    {i \in 1..Len(verFiles.build_gradle.text) :
        MatchVersionCode(Drop(verFiles.build_gradle.text, i - 1)) # <<>>}

FirstVersionCodeMatch ==
    CHOOSE i \in VersionCodeMatches : \A j \in VersionCodeMatches : i <= j

\* C5 as stated: a build file whose text contains 'versionCode 7' makes
\* check_build_gradle report version code 7 and record no versionCode issue.
C5_ReportsSeven ==
    GradleChecked /\ HasVersionCode7 =>
        /\ ver.results.build_gradle.version_code = <<"7">>
        /\ "versionCode" \notin ver.results.build_gradle.issues

\* C5, amended: a build file whose text contains 'versionCode 7' has the
\* version-code check passed; the value reported is the digit run of the
\* leftmost match of versionCode, whitespace, digits (which is 7 when that
\* match is 'versionCode 7' with no digit after the 7); a versionCode issue
\* is recorded exactly when the text has no match.
C5_FirstMatchReported ==
    GradleChecked =>
        /\ HasVersionCode7 =>
              "versionCode" \notin ver.results.build_gradle.issues
        /\ "versionCode" \in ver.results.build_gradle.issues
              <=> VersionCodeMatches = {}
        /\ VersionCodeMatches # {} =>
              ver.results.build_gradle.version_code =
                 MatchVersionCode(Drop(verFiles.build_gradle.text,
                                       FirstVersionCodeMatch - 1))
        /\ VersionCodeMatches = {} =>
              ver.results.build_gradle.version_code = <<>>

\* a later 'versionCode 7' is in the text and the first match is reported
C5_Witness ==
    /\ GradleChecked
    /\ HasVersionCode7
    /\ Cardinality(VersionCodeMatches) = 2
    /\ ver.results.build_gradle.version_code = <<"0">>

ManifestLacksPermission ==
    /\ verFiles.manifest.kind = "text"
    /\ ~Contains(verFiles.manifest.text, <<"android.permission.INTERNET">>)

\* C6: with a manifest whose text lacks android.permission.INTERNET,
\* check_manifest records the permission issue and returns False, and the
\* script ends with exit status 1 whatever the other checks find.
C6_MissingPermissionFails ==
    ManifestLacksPermission =>
        /\ ver.results.manifest.outcome = "returned" =>
              /\ "internet-permission" \in ver.results.manifest.issues
              /\ ver.results.manifest.result = FALSE
        /\ ver.pc = "exited" => ver.status = 1

\* the permission is the only thing wrong and the script has returned 1
C6_Witness ==
    /\ ManifestLacksPermission
    /\ ver.results.manifest.issues = {"internet-permission"}
    /\ ver.results.build_gradle.result
    /\ ver.results.proguard_rules.result
    /\ ver.results.privacy_compliance.result
    /\ ver.pc = "exited"
    /\ ver.returned
    /\ ver.status = 1

FourChecksTrue ==
    \A name \in {"build_gradle", "proguard_rules", "manifest",
                 "privacy_compliance"} :
        /\ ver.results[name].outcome = "returned"
        /\ ver.results[name].result

\* C7: the script's exit status is 0 exactly when check_build_gradle,
\* check_proguard_rules, check_manifest and check_privacy_compliance all
\* returned True, and 1 otherwise; check_aab_file's result plays no part.
C7_ExitStatus ==
    ver.pc = "exited" =>
        /\ ver.status \in {0, 1}
        /\ ver.status = 0 <=> FourChecksTrue

\* exit status 0 although the AAB file is missing
C7_Witness ==
    /\ ver.pc = "exited"
    /\ ver.status = 0
    /\ ver.results.aab_file.outcome = "returned"
    /\ ver.results.aab_file.result = FALSE

\* C8: the script never raises: every check ends by returning a boolean
\* and main always reaches its return.
C8_NeverRaises ==
    /\ \A name \in DOMAIN ver.results :
          ver.results[name].outcome # "raised"
    /\ ver.pc = "exited" => ver.returned

(***************************************************************************)
(* fix_logos.py and optimize-logos.py: the loops over the output files     *)
(***************************************************************************)
FixLogosVerified ==
    run.script = "fix_logos" /\ run.pc = "exited" /\ run.attempted # {}

\* C14 as stated: after the conversion loop every listed output is reported
\* once, and as correct exactly when the file exists, can be decoded and
\* has the expected size.
C14_CorrectIffDecodable ==
    FixLogosVerified =>
        /\ Len(run.verified) = Len(conversions)
        /\ \A i \in 1..Len(conversions) :
              LET f == fs[conversions[i][2]]
              IN  run.verified[i] = "ok"
                     <=> /\ f.kind = "image"
                         /\ <<f.image.width, f.image.height>>
                               = conversions[i][3]

\* C14, amended: every listed output is reported once, in list order: as
\* not created when no file is there, as an error when Image.open cannot
\* identify the file, and otherwise as correct exactly when the width and
\* height of its header equal the expected size; the pixel data is not
\* decoded, so a file with a good header and damaged data counts as correct.
C14_CorrectIffHeaderSize ==
    FixLogosVerified =>
        /\ Len(run.verified) = Len(conversions)
        /\ \A i \in 1..Len(conversions) :
              LET f == fs[conversions[i][2]]
                  sized == <<f.image.width, f.image.height>>
                              = conversions[i][3]
              IN  /\ run.verified[i] = "not created" <=> f.kind = "missing"
                  /\ run.verified[i] = "error reading"
                        <=> f.kind = "undecodable"
                  /\ run.verified[i] = "ok"
                        <=> f.kind \in {"image", "truncated"} /\ sized
                  /\ run.verified[i] = "wrong size"
                        <=> f.kind \in {"image", "truncated"} /\ ~sized

\* the first output could not be written and is reported with the wrong
\* size, the others are reported correct
C14_Witness ==
    /\ FixLogosVerified
    /\ run.verified[1] = "wrong size"
    /\ \A i \in 2..Len(conversions) : run.verified[i] = "ok"

\* optimize-logos: what step j writes at its output, from the tree the run
\* started in.  Step 1 replaces the source logo, which every later step
\* reads.
OptNewContent(r, j) ==
    LET first == optimize_png(r.before.src.image, conversions[1][3]).output
    IN  IF j = 1 THEN Stored(first)
        ELSE Stored(optimize_png(first, conversions[j][3]).output)

LoopLength ==
    IF run.script = "fix_logos" THEN Len(conversions) ELSE Len(AndroidItems)

\* C10: in the conversion loop of fix_logos and in the density loop of
\* create_android_icons a failure on item k is caught and the items
\* k+1..n are still attempted: when the script has ended, every item after
\* a failed one has been attempted.
C10_FailureDoesNotStopLoop ==
    run.pc = "exited" =>
        \A k \in run.failed :
            \A j \in (k + 1)..LoopLength : j \in run.attempted

(***************************************************************************)
(* The graphics scripts (GfxSpec).                                         *)
(***************************************************************************)
\* the logo file a script reads
LogoOf(script) ==
    IF script = "create_feature_graphic" THEN LOGO_PATH ELSE logo_path

\* nothing but the logo can be the matter: the fonts load, every path can
\* be written
OnlyLogoMatters ==
    /\ env.freetype /\ env.fontFiles = {Bold, Sans}
    /\ env.readOnly = {} /\ ~env.noDir

\* C11: with the input logo missing, generate_graphics skips the logo paste
\* and still saves both graphics, and create-playstore-assets and
\* create_feature_graphic do not end in an uncaught exception (nothing else
\* being the matter).
C11_MissingLogoHandled ==
    /\ job.script \in {"generate_graphics", "create_feature_graphic",
                       "create-playstore-assets"}
    /\ job.pc = "exited"
    /\ OnlyLogoMatters
    /\ assets[LogoOf(job.script)].kind = "missing"
    => /\ job.status = 0
       /\ job.script = "generate_graphics" =>
             /\ job.logo = <<"skipped", "skipped">>
             /\ job.saved = {"public/feature-graphic.png",
                             "public/og-image.png"}

FontLoadFails == ~TruetypeLoads(Bold) \/ ~TruetypeLoads(Sans)

\* C12: when a TrueType font fails to load, the three fonts of each graphic
\* are all the default font, nothing is reported, and the graphic is still
\* drawn and saved: the script ends with every graphic saved.
C12_FontFallbackSaves ==
    /\ job.script \in {"generate_graphics", "create_feature_graphic"}
    /\ job.pc = "exited"
    /\ FontLoadFails
    /\ env.readOnly = {}
    => /\ \A i \in 1..Len(job.fonts) :
             \A k \in 1..Len(job.fonts[i]) : job.fonts[i][k] = load_default
       /\ job.printed \subseteq {"Could not load logo"}
       /\ job.status = 0
       /\ "public/feature-graphic.png" \in job.saved

\* C16: generate-chart-logo backs the current logo up before it generates
\* the new one. When a logo file exists at the output path at the start of
\* the run, a run that ends normally leaves in zikalyze-logo-backup.png the
\* content the logo had before the run, and in every run, also one that an
\* exception ended, the output path is overwritten only after that copy was
\* made.
C16_BackupBeforeOverwrite ==
    /\ job.script = "generate-chart-logo"
    /\ job.pc = "exited"
    /\ job.before.kind # "missing"
    => /\ job.status = 0 =>
             /\ assets["src/assets/zikalyze-logo-backup.png"] = job.before
             /\ assets[logo_path] = NewLogo("generate-chart-logo")
       /\ assets[logo_path] # job.before =>
             assets["src/assets/zikalyze-logo-backup.png"] = job.before

\* a finished run over an existing logo: new logo at the output path, the
\* old one in the backup
C16_Witness ==
    /\ job.script = "generate-chart-logo"
    /\ job.pc = "exited"
    /\ job.status = 0
    /\ job.before = OldLogo("RGB")
    /\ assets[logo_path] = NewLogo("generate-chart-logo")
    /\ assets["src/assets/zikalyze-logo-backup.png"] = OldLogo("RGB")

\* C17: generate-professional-logo saves a backup of the old logo. When a
\* logo file exists at the output path at the start of the run, after the
\* run zikalyze-logo-old.png holds the content the logo had before the run,
\* not the newly generated logo.
C17_OldLogoKept ==
    /\ job.script = "generate-professional-logo"
    /\ job.pc = "exited"
    /\ job.status = 0
    /\ job.before.kind # "missing"
    => /\ assets["src/assets/zikalyze-logo-old.png"] = job.before
       /\ assets["src/assets/zikalyze-logo-old.png"]
             # NewLogo("generate-professional-logo")

\* the size of the scaled copy of the source inside the output of a call of
\* convert_and_resize: img_resized of the square branch, the whole output
\* of the other
ScaledCopy(c) ==
    IF c.square THEN <<c.new_width, c.new_height>> ELSE SizeOf(c.output)

\* cw : ch is w : h up to one pixel: with one side kept, the other is less
\* than one pixel away from its exact value
RatioKept(w, h, cw, ch) ==
    LET d == cw * h - ch * w
        abs == IF d < 0 THEN 0 - d ELSE d
    IN  abs <= (IF w > h THEN w ELSE h)

\* C18: convert_and_resize resizes with the source's aspect ratio preserved
\* for every target size: for a source of w by h and any target (W, H),
\* square or not, the scaled copy of the source in the output has width and
\* height in the ratio w : h up to one pixel of rounding.
C18_AspectRatioPreserved ==
    (Saved(call) /\ call.op = "convert_and_resize") =>
        RatioKept(call.input.width, call.input.height,
                  ScaledCopy(call)[1], ScaledCopy(call)[2])

\* the lines of a rules text, each as the places <<first, last>> it takes
\* in the text (last = first - 1 for an empty line)
LineSpans(content) ==
    {sp \in (1..(Len(content) + 1)) \X (0..Len(content)) :
        /\ sp[2] >= sp[1] - 1
        /\ sp[1] = 1 \/ content[sp[1] - 1] = "\n"
        /\ sp[2] = Len(content) \/ content[sp[2] + 1] = "\n"
        /\ \A k \in sp[1]..sp[2] : content[k] # "\n"}

\* the place of the first word of a line that is not whitespace, 0 if none
FirstWord(content, sp) ==
    LET words == {k \in sp[1]..sp[2] : content[k] \notin Whitespace}
    IN  IF words = {} THEN 0
        ELSE CHOOSE k \in words : \A l \in words : k <= l

\* the line starts with -keepattributes once the surrounding whitespace is
\* stripped, and holds both attribute names
KeepsSourceAttributes(content, sp) ==
    /\ FirstWord(content, sp) # 0
    /\ content[FirstWord(content, sp)] = "-keepattributes"
    /\ \E a, b \in sp[1]..sp[2] :
          content[a] = "SourceFile" /\ content[b] = "LineNumberTable"

CommentedOut(content, sp) ==
    FirstWord(content, sp) # 0 /\ content[FirstWord(content, sp)] = "#"

\* C20: the source-attributes check of check_proguard_rules is made line by
\* line and has no false positive from comments: it passes exactly when
\* some line of the rules file, after stripping surrounding whitespace,
\* starts with -keepattributes and contains both SourceFile and
\* LineNumberTable; a line that is commented out with # never satisfies it
\* (a file whose lines with the three words are all commented out fails).
C20_SourceAttributesByLine ==
    ver.results.proguard_rules.outcome = "returned"
    /\ verFiles.proguard_rules.kind = "text" =>
        LET content == verFiles.proguard_rules.text
            passes == "source-attributes"
                          \notin ver.results.proguard_rules.issues
        IN  /\ passes <=> \E sp \in LineSpans(content) :
                              KeepsSourceAttributes(content, sp)
            /\ (\A sp \in LineSpans(content) :
                    (\E k \in sp[1]..sp[2] : content[k] = "-keepattributes")
                        => CommentedOut(content, sp))
                   => ~passes

\* the check passed on a rule line that begins with a space
C20_Witness ==
    /\ ver.results.proguard_rules.outcome = "returned"
    /\ "source-attributes" \notin ver.results.proguard_rules.issues
    /\ verFiles.proguard_rules.kind = "text"
    /\ LET content == verFiles.proguard_rules.text
       IN  \E sp \in LineSpans(content) :
              /\ KeepsSourceAttributes(content, sp)
              /\ content[sp[1]] = " "

\* both runs have ended
BothExited == run.pc = "exited" /\ other.pc = "exited"

\* the second run was started after the first had ended
Sequential == io.switches = 0

\* the icon set holds files of both runs
Mixed ==
    \E p, q \in Outputs : io.writer[p].id = 1 /\ io.writer[q].id = 2

\* every output path holds what the run that wrote it last saved there
LastWriterWins(paths) ==
    \A p \in paths : io.writer[p].id # 0 => fs[p] = io.writer[p].file

DensityPixels ==
    [d \in {"mdpi", "hdpi", "xhdpi", "xxhdpi", "xxxhdpi"} |->
        CASE d = "mdpi" -> 48
          [] d = "hdpi" -> 72
          [] d = "xhdpi" -> 96
          [] d = "xxhdpi" -> 144
          [] d = "xxxhdpi" -> 192]

LauncherNames ==
    {"ic_launcher.png", "ic_launcher_round.png", "ic_launcher_foreground.png"}

LauncherPath(d, n) == "android/app/src/main/res/mipmap-" \o d \o "/" \o n

\* the requests a script has to make: every density, every name, the
\* density's size squared
LauncherRequests ==
    {<<source_logo, LauncherPath(d, n), <<DensityPixels[d], DensityPixels[d]>> >> :
        d \in DOMAIN DensityPixels, n \in LauncherNames}

\* the request the run is about to make for a launcher icon, if any
IconRequest ==
    IF run.script = "fix_logos" /\ run.pc = "convert" /\ run.i > 4
    THEN {conversions[run.i]}
    ELSE IF run.script = "optimize-logos" /\ run.pc = "icons"
         THEN {AndroidItems[run.i]}
         ELSE {}

\* the run went through all its launcher icons and none failed
IconsDone ==
    /\ run.pc = "verify" \/ (run.pc = "exited" /\ run.status = 0)
    /\ run.attempted # {}
    /\ run.failed = {}

\* C21: every launcher-icon request of fix_logos and of create_android_icons
\* is one of the fifteen (density, name) requests at the density's size
\* squared (mdpi 48, hdpi 72, xhdpi 96, xxhdpi 144, xxxhdpi 192), and a run of
\* either script that went through its icons without a failure has written
\* exactly these fifteen files under android/, each holding an image of its
\* density's size.
C21_DensitySizesAgree ==
    /\ IconRequest \subseteq LauncherRequests
    /\ IconsDone =>
          /\ {run.written[k] : k \in 1..Len(run.written)}
                \ {MainItems[k][2] : k \in 1..Len(MainItems)}
                = {q[2] : q \in LauncherRequests}
          /\ \A q \in LauncherRequests :
                /\ fs[q[2]].kind = "image"
                /\ <<fs[q[2]].image.width, fs[q[2]].image.height>> = q[3]

\* a run of optimize-logos wrote all fifteen launcher icons
C21_Witness ==
    /\ run.script = "optimize-logos"
    /\ IconsDone
    /\ run.pc = "exited"
    /\ Len(run.written) = Len(MainItems) + 15

(***************************************************************************)
(* What check_build_gradle and check_manifest return.                      *)
(***************************************************************************)
\* versionCode, white space, a digit: at some place of the text
VersionCodeDeclared(content) ==
    \E i \in 1..Len(content), j \in 1..Len(content) :
        /\ content[i] = "versionCode"
        /\ j > i + 1
        /\ \A k \in (i + 1)..(j - 1) : content[k] \in Whitespace
        /\ content[j] \in DigitChars

\* versionName, white space, a double quote, one character or more that is
\* no double quote, a double quote: at some place of the text
VersionNameDeclared(content) ==
    \E i \in 1..Len(content), j \in 1..Len(content), k \in 1..Len(content) :
        /\ content[i] = "versionName"
        /\ j > i + 1
        /\ \A m \in (i + 1)..(j - 1) : content[m] \in Whitespace
        /\ content[j] = "\""
        /\ k > j + 1
        /\ content[k] = "\""
        /\ \A m \in (j + 1)..(k - 1) : content[m] # "\""

\* the word is somewhere in the text
HasWord(content, word) == \E i \in 1..Len(content) : content[i] = word

\* the namespace declaration: namespace, one space, "com.zikalyze.app"
NamespaceDeclared(content) ==
    \E i \in 1..Len(content) :
        /\ i + 4 <= Len(content)
        /\ content[i] = "namespace"
        /\ content[i + 1] = " "
        /\ content[i + 2] = "\""
        /\ content[i + 3] = "com.zikalyze.app"
        /\ content[i + 4] = "\""

GradleWanted(f) ==
    /\ f.kind = "text"
    /\ NamespaceDeclared(f.text)
    /\ VersionCodeDeclared(f.text)
    /\ VersionNameDeclared(f.text)
    /\ HasWord(f.text, "proguardFiles")

ManifestWanted(f) ==
    /\ f.kind = "text"
    /\ HasWord(f.text, "android.permission.INTERNET")
    /\ HasWord(f.text, "android:exported=\"true\"")
    /\ HasWord(f.text, "android.intent.action.MAIN")
    /\ HasWord(f.text, "android.intent.category.LAUNCHER")

ReturnedTrue(r) == r.outcome = "returned" /\ r.result

\* C22: once check_build_gradle has run, it returned True exactly when the
\* build file is a text with the namespace declaration, a version code, a
\* version name and proguardFiles; 'minifyEnabled true' decides the warning
\* it prints and nothing else.  Once check_manifest has run, the
\* application-ID test decides the warning it prints and the returned
\* boolean is that of the four other tests.
C22_MinifyAndAppIdOnlyPrint ==
    /\ ver.results.build_gradle.outcome # "not run" =>
          /\ ReturnedTrue(ver.results.build_gradle)
                <=> GradleWanted(verFiles.build_gradle)
          /\ verFiles.build_gradle.kind = "text" =>
                (ver.results.build_gradle.warned = {}
                    <=> HasWord(verFiles.build_gradle.text,
                                "minifyEnabled true"))
    /\ ver.results.manifest.outcome # "not run" =>
          /\ ReturnedTrue(ver.results.manifest)
                <=> ManifestWanted(verFiles.manifest)
          /\ verFiles.manifest.kind = "text" =>
                (ver.results.manifest.warned = {}
                    <=> (HasWord(verFiles.manifest.text, "${applicationId}")
                         \/ HasWord(verFiles.manifest.text,
                                    "com.zikalyze.app")))

\* both checks returned True after printing their warning: the build file
\* has no 'minifyEnabled true', the manifest no application ID
C22_Witness ==
    /\ ReturnedTrue(ver.results.build_gradle)
    /\ ver.results.build_gradle.warned = {"minifyEnabled"}
    /\ ReturnedTrue(ver.results.manifest)
    /\ ver.results.manifest.warned = {"applicationId"}

(***************************************************************************)
(* The order of the checks in main of verify_aab.py.                       *)
(***************************************************************************)
CheckOrder ==
    <<"check_build_gradle", "check_proguard_rules", "check_manifest",
      "check_privacy_compliance", "check_aab_file", "summary">>

CheckField ==
    <<"build_gradle", "proguard_rules", "manifest", "privacy_compliance",
      "aab_file">>

\* C23: every step of main runs the check whose turn it is and no other;
\* when that check returns, True or False, the next step is the next check
\* of the order build.gradle, ProGuard rules, manifest, privacy compliance,
\* AAB file (then the summary); and all_passed, once False, is False after
\* every later step.
C23_NoCheckSkipped ==
    [][ /\ \A k \in 1..5 :
              ver.pc = CheckOrder[k] =>
                 /\ ver'.results[CheckField[k]].outcome
                        \in {"returned", "raised"}
                 /\ \A j \in (1..5) \ {k} :
                       ver'.results[CheckField[j]] = ver.results[CheckField[j]]
                 /\ ver'.results[CheckField[k]].outcome = "returned"
                       => ver'.pc = CheckOrder[k + 1]
        /\ ver.pc \notin {CheckOrder[k] : k \in 1..5} =>
              ver'.results = ver.results
        /\ ~ver.all_passed => ~ver'.all_passed
      ]_vars

\* the first check returned False, the manifest check returned True, and
\* main came to its end with every check run and all_passed False
C23_Witness ==
    /\ ver.pc = "exited" /\ ver.returned
    /\ ver.results.build_gradle.outcome = "returned"
    /\ ~ver.results.build_gradle.result
    /\ ver.results.manifest.result
    /\ \A k \in 1..5 : ver.results[CheckField[k]].outcome = "returned"
    /\ ~ver.all_passed

(***************************************************************************)
(* What remove_white_background leaves alone.                              *)
(***************************************************************************)
\* C24: in every saved run the output has the width and height of the
\* input and as many pixels, every pixel has the red, green and blue of the
\* input converted to RGBA, and every pixel outside the white mask has the
\* alpha of the input converted to RGBA.
C24_OnlyAlphaChanges ==
    \A k \in 1..Len(bgRuns) :
        LET r == bgRuns[k]
        IN  /\ r.output_size = r.input_size
            /\ Len(r.output) = r.input_size[1] * r.input_size[2]
            /\ Len(r.output) = Len(r.input)
            /\ \A i \in 1..Len(r.input) :
                  LET px == PixelToRGBA(r.input[i])
                  IN  /\ SubSeq(r.output[i], 1, 3) = SubSeq(px, 1, 3)
                      /\ Len(r.output[i]) = 4
                      /\ i \notin r.white_mask => r.output[i][4] = px[4]

\* a saved run on an image one pixel wide and two high: the first pixel was
\* made transparent, the second kept its alpha of 200
C24_Witness ==
    /\ Len(bgRuns) >= 1
    /\ bgRuns[1].input_size = <<1, 2>>
    /\ bgRuns[1].output_size = <<1, 2>>
    /\ bgRuns[1].white_mask = {1}
    /\ Len(bgRuns[1].input[2]) = 4
    /\ bgRuns[1].input[2][4] = 200
    /\ bgRuns[1].output[2][4] = 200
    /\ bgFiles.output.kind = "image"
    /\ bgFiles.output.size = <<1, 2>>

\* C25: for every image and threshold, remove_white_background applied to
\* the file it saved, with the same threshold, saves the same pixels (and
\* the same size) again.
C25_Idempotent ==
    twice.pc = "twice" =>
        /\ twice.again.pixels = twice.once.pixels
        /\ twice.again = twice.once

\* both applications done on an image without alpha channel in its first
\* pixel, the first application having made that pixel transparent and
\* left another pixel as it was
C25_Witness ==
    /\ twice.pc = "twice"
    /\ Len(twice.input.pixels) = 2
    /\ Len(twice.input.pixels[1]) = 3
    /\ twice.once.pixels[1][4] = 0
    /\ twice.once.pixels[2] = twice.input.pixels[2]
    /\ twice.once.pixels[2][4] = 255

(***************************************************************************)
(* The default output path of remove_white_background.                     *)
(***************************************************************************)
\* the place of the last '.' of a path, one past its end when it has none
LastDot(path) ==
    IF \E i \in 1..Len(path) : path[i] = "."
    THEN CHOOSE i \in 1..Len(path) :
            /\ path[i] = "."
            /\ \A j \in (i + 1)..Len(path) : path[j] # "."
    ELSE Len(path) + 1

\* C26: when no output path is given, the output path is the input path up
\* to its last '.' (all of it when it has none) followed by
\* '-transparent.png', and it is not the input path.
C26_DefaultOutputDiffers ==
    (naming.pc = "determined" /\ ~naming.output_arg.given) =>
        /\ naming.output_path =
              SubSeq(naming.input_path, 1, LastDot(naming.input_path) - 1)
                 \o <<"-transparent", ".", "png">>
        /\ naming.output_path # naming.input_path

\* the default path determined for an input that already ends in
\* '-transparent.png'
C26_Witness ==
    /\ naming.pc = "determined" /\ ~naming.output_arg.given
    /\ naming.input_path = <<"logo", "-transparent", ".", "png">>
    /\ naming.output_path =
          <<"logo", "-transparent", "-transparent", ".", "png">>

(***************************************************************************)
(* The scaled size convert_and_resize computes for a square target.        *)
(***************************************************************************)
\* C27 (as claimed): in every call of convert_and_resize with a square
\* target T by T, 1 <= new_width <= T and 1 <= new_height <= T, the resize
\* does not raise, both paste offsets are at least 0 and the pasted box
\* lies inside the T by T canvas.
C27_ScaledSizeInRange ==
    (call.op = "convert_and_resize" /\ call.square) =>
        LET T == call.target[1]
        IN  /\ 1 <= call.new_width /\ call.new_width <= T
            /\ 1 <= call.new_height /\ call.new_height <= T
            /\ call.outcome # "raised"
            /\ call.offset_x >= 0 /\ call.offset_y >= 0
            /\ call.offset_x + call.new_width <= T
            /\ call.offset_y + call.new_height <= T

(***************************************************************************)
(* What the conversions of fix_logos read, what optimize-logos replaces,   *)
(* and what the verification of fix_logos reports.                         *)
(***************************************************************************)
\* C28 (as claimed): in a run of fix_logos, the content at the source logo's
\* path when one of the conversions 2 to 19 is about to read it is the
\* content that was there when the run started, which conversion 1 read.
C28_SourceReadUnchanged ==
    (run.script = "fix_logos" /\ run.pc = "convert" /\ run.i >= 2) =>
        fs[conversions[run.i][1]] = run.before.src

\* C29: in a run of optimize-logos, each of the four top-level destinations
\* holds the image of its size saved by this run once its item is done, and
\* until then, also when optimize_png raised for it and ended the run, the
\* content it had when the run started; no '.new' file is left behind.
C29_ReplacedOnlyWhenSaved ==
    run.script = "optimize-logos" =>
        \A k \in 1..Len(MainItems) :
            LET dest == MainItems[k][2]
                done == \E j \in 1..Len(run.written) : run.written[j] = dest
            IN  /\ done =>
                      /\ fs[dest].kind = "image"
                      /\ <<fs[dest].image.width, fs[dest].image.height>>
                             = MainItems[k][3]
                /\ ~done =>
                      fs[dest] = StartTree(run.before.src, run.before.old)[dest]
                /\ fs[dest \o ".new"] = Absent

\* optimize_png raised for the third destination, whose '.new' file cannot
\* be written: the run ended there, the first two destinations replaced
\* and the third still holding the image an earlier run left
C29_Witness ==
    /\ run.script = "optimize-logos"
    /\ run.pc = "exited" /\ run.status = 1
    /\ run.written = <<MainItems[1][2], MainItems[2][2]>>
    /\ unwritable = {MainItems[3][2] \o ".new"}
    /\ run.before.old.kind = "image"
    /\ fs[MainItems[3][2]] = run.before.old

\* C30 (as claimed): in a run of fix_logos, an output whose conversion
\* raised in this run is not reported as correct by the verification pass.
C30_VerifiedOnlyIfProduced ==
    run.script = "fix_logos" =>
        \A k \in 1..Len(run.verified) :
            k \in run.failed => run.verified[k] # "ok"

====
